---- MODULE Spec2Model ----
(***************************************************************************)
(* A model of pygraph: Edge, the two graph representations                 *)
(* (AdjacencyList, AdjacencyMatrix), the Graph facade and Tree.            *)
(*                                                                         *)
(* Python values are encoded as follows.                                   *)
(*   - vertices are small integers; 0 stands for Python's None (hashable,  *)
(*     but not order-comparable with anything), the others for ordinary    *)
(*     integers;                                                           *)
(*   - Unhashable stands for a value without __hash__ such as [1, 2];      *)
(*   - a Python dict is an insertion-ordered sequence of <<key, value>>;   *)
(*   - "X | None" is <<>> for None and <<x>> for a value x;                *)
(*   - a metadata dict's contents are a set of <<key, value>> pairs;       *)
(*   - a float weight is an integer.                                       *)
(***************************************************************************)
EXTENDS Integers, Sequences, FiniteSets, TLC

\* ------------------------------------------------------------------ bounds
\* vertices of the tree specification are 0..MaxTreeVertex
MaxTreeVertex == 3
\* number of calls on the graphs that return normally in one run
MaxOps == 5
\* number of push calls on the containers in one run
MaxPushes == 5

\* ------------------------------------------------------------ value domain
None == 0
Unhashable == 0 - 1
\* the vertices given to the two graphs: None and two integers
Vertices == {None, 1, 2}
TreeVertexValues == 0..MaxTreeVertex
Weights == {1, 5}
\* metadata arguments: None (the default), {} and {"type": "road"}
RoadMeta == {<<"type", "road">>}
MetadataArgs == {<<>>, <<{}>>, <<RoadMeta>>}
\* the (weight, metadata) pairs given to add_edge
EdgeArgs == {<<1, <<>>>>, <<1, <<{}>>>>, <<5, <<RoadMeta>>>>}
NONE == <<>>
Some(x) == <<x>>

\* hash(v) raises TypeError exactly for values without __hash__
Hashable(v) == v # Unhashable
\* a > b raises TypeError when either side is None
Comparable(a, b) == a # None /\ b # None
\* hash(int) is the int (for small ints); hash(None) is one fixed value,
\* greater than every integer used here
Hash(v) == IF v = None THEN MaxTreeVertex + 1 ELSE v

\* ------------------------------------------------------------ Python dict
EmptyDict == <<>>
DictHas(d, k) == \E i \in 1..Len(d) : d[i][1] = k
DictPos(d, k) == CHOOSE i \in 1..Len(d) : d[i][1] = k
DictGet(d, k) == d[DictPos(d, k)][2]
\* d[k] = v: an existing key keeps its position, a new key goes last
DictSet(d, k, v) ==
    IF DictHas(d, k)
    THEN [i \in 1..Len(d) |-> IF d[i][1] = k THEN <<k, v>> ELSE d[i]]
    ELSE Append(d, <<k, v>>)
\* del d[k] / d.pop(k, None)
DictDel(d, k) == SelectSeq(d, LAMBDA kv : kv[1] # k)
DictKeys(d) == {d[i][1] : i \in 1..Len(d)}
DictKeySeq(d) == [i \in 1..Len(d) |-> d[i][1]]
DictValues(d) == [i \in 1..Len(d) |-> d[i][2]]
SeqToSet(s) == {s[i] : i \in 1..Len(s)}

RECURSIVE Flatten(_)
Flatten(ss) == IF ss = <<>> THEN <<>> ELSE Head(ss) \o Flatten(Tail(ss))
\* Edge that puts source and target in canonical order whatever directed is
EdgeAlwaysNormalized(source, target, weight, metadata, directed) ==
    LET swap == IF Comparable(source, target)
                THEN source > target
                ELSE Hash(source) > Hash(target)
    IN  IF source # target /\ swap
        THEN [source |-> target, target |-> source, weight |-> weight,
              metadata |-> metadata, directed |-> directed]
        ELSE [source |-> source, target |-> target, weight |-> weight,
              metadata |-> metadata, directed |-> directed]

\* -------------------------------------------------------------------- Edge
\* Edge(source, target, weight, metadata, directed) after __post_init__;
\* both vertices are hashable wherever the model constructs an edge.
Edge(source, target, weight, metadata, directed) ==
    LET swap == IF Comparable(source, target)
                THEN source > target
                ELSE Hash(source) > Hash(target)
    IN  IF ~directed /\ source # target /\ swap
        THEN [source |-> target, target |-> source, weight |-> weight,
              metadata |-> metadata, directed |-> directed]
        ELSE [source |-> source, target |-> target, weight |-> weight,
              metadata |-> metadata, directed |-> directed]
\* EdgeKey that lets metadata take part in __eq__
EdgeKeyWithMetadata(e) == <<e.source, e.target, e.weight, e.directed, e.metadata>>

\* dataclass __eq__ / __hash__: metadata has compare=False, hash=False
EdgeKey(e) == <<e.source, e.target, e.weight, e.directed>>
EdgeEq(e1, e2) == EdgeKey(e1) = EdgeKey(e2)
EdgeHash(e) == <<Hash(e.source), Hash(e.target), e.weight, e.directed>>
\* Edge(...) as a call: TypeError when a vertex is not hashable, else the
\* Edge object
EdgeCreate(source, target, weight, metadata, directed) ==
    IF ~Hashable(source) \/ ~Hashable(target)
    THEN [err |-> "TypeError", ret |-> NONE]
    ELSE [err |-> "ok", ret |-> Some(Edge(source, target, weight, metadata, directed))]

\* edge.metadata[key] = value: the dataclass is frozen, its metadata dict
\* is not
EdgeSetMetadata(e, key, value) ==
    [e EXCEPT !.metadata = {p \in @ : p[1] # key} \cup {<<key, value>>}]

\* ------------------------------------------------------------- containers
\* FIFOQueue.__init__: _queue, a deque, as the sequence of its items
FIFOQueue == <<>>
\* PriorityQueue.__init__ with the default key: _heap, a list of
\* (priority, counter, item) tuples, and _counter
PriorityQueue == [heap |-> <<>>, counter |-> 0]

\* an item is a tuple (priority, value) or a bare priority; both are
\* written <<kind, priority, value>>
TupleItem(priority, value) == <<"tuple", priority, value>>
BareItem(priority) == <<"bare", priority, "">>

\* a container method's outcome: the container afterwards, "ok" or the kind
\* of the exception raised, and the value returned
ContainerOutcome(c, err, ret) == [container |-> c, err |-> err, ret |-> ret]

\* deque.append
FifoPush(q, item) == ContainerOutcome(Append(q, item), "ok", NONE)

\* FifoPop that takes the item from the back of the deque
FifoPopFromBack(q) ==
    IF Len(q) = 0 THEN ContainerOutcome(q, "IndexError", NONE)
    ELSE ContainerOutcome(SubSeq(q, 1, Len(q) - 1), "ok", Some(q[Len(q)]))

\* deque.popleft, which raises IndexError on an empty deque
FifoPop(q) ==
    IF Len(q) = 0 THEN ContainerOutcome(q, "IndexError", NONE)
    ELSE ContainerOutcome(Tail(q), "ok", Some(Head(q)))

FifoIsEmpty(q) == Len(q) = 0

\* the default key: x[0] if isinstance(x, tuple) else x
DefaultKey(item) == IF item[1] = "tuple" THEN item[2] ELSE item[2]

\* a < b on (priority, counter, item) tuples; the counters of two entries
\* of one heap differ, so the items are never compared
EntryLess(a, b) ==
    \/ a[1] < b[1]
    \/ a[1] = b[1] /\ a[2] < b[2]

\* heapq._siftdown: heap[pos] moves towards startpos past every parent it
\* is less than (positions count from 0, sequences from 1)
RECURSIVE SiftDownFrom(_, _, _, _)
SiftDownFrom(heap, startpos, pos, newitem) ==
    IF pos > startpos /\ EntryLess(newitem, heap[((pos - 1) \div 2) + 1])
    THEN SiftDownFrom([heap EXCEPT ![pos + 1] = heap[((pos - 1) \div 2) + 1]],
                      startpos, (pos - 1) \div 2, newitem)
    ELSE [heap EXCEPT ![pos + 1] = newitem]

SiftDown(heap, startpos, pos) ==
    SiftDownFrom(heap, startpos, pos, heap[pos + 1])

\* heapq._siftup: the smaller child moves up until a leaf is reached, then
\* the item put at the leaf is sifted down
RECURSIVE SiftUpFrom(_, _, _, _)
SiftUpFrom(heap, startpos, pos, newitem) ==
    LET endpos == Len(heap)
        leftpos == 2 * pos + 1
        rightpos == leftpos + 1
        childpos == IF rightpos < endpos
                       /\ ~EntryLess(heap[leftpos + 1], heap[rightpos + 1])
                    THEN rightpos ELSE leftpos
    IN  IF leftpos < endpos
        THEN SiftUpFrom([heap EXCEPT ![pos + 1] = heap[childpos + 1]],
                        startpos, childpos, newitem)
        ELSE SiftDown([heap EXCEPT ![pos + 1] = newitem], startpos, pos)

SiftUp(heap, pos) == SiftUpFrom(heap, pos, pos, heap[pos + 1])

\* heapq.heappush: append, then _siftdown(heap, 0, len(heap) - 1)
HeapPush(heap, entry) == SiftDown(Append(heap, entry), 0, Len(heap))

\* heapq.heappop of a non-empty heap: the last entry replaces the first,
\* which is returned, and is sifted up
HeapPop(heap) ==
    LET lastelt == heap[Len(heap)]
        rest == SubSeq(heap, 1, Len(heap) - 1)
    IN  IF Len(rest) > 0
        THEN [heap |-> SiftUp([rest EXCEPT ![1] = lastelt], 0), ret |-> heap[1]]
        ELSE [heap |-> rest, ret |-> lastelt]

\* PqPush whose counter counts down
PqPushCountsDown(q, item) ==
    ContainerOutcome(
        [heap |-> HeapPush(q.heap, <<DefaultKey(item), q.counter, item>>),
         counter |-> q.counter - 1],
        "ok", NONE)

\* PriorityQueue.push
PqPush(q, item) ==
    ContainerOutcome(
        [heap |-> HeapPush(q.heap, <<DefaultKey(item), q.counter, item>>),
         counter |-> q.counter + 1],
        "ok", NONE)

\* PriorityQueue.pop: heappop raises IndexError on an empty heap
PqPop(q) ==
    IF Len(q.heap) = 0 THEN ContainerOutcome(q, "IndexError", NONE)
    ELSE ContainerOutcome([q EXCEPT !.heap = HeapPop(q.heap).heap],
                          "ok", Some(HeapPop(q.heap).ret[3]))

PqIsEmpty(q) == Len(q.heap) = 0

\* ----------------------------------------------------------- AdjacencyList
\* AdjacencyList.__init__: _directed and _adj (vertex -> (target -> Edge))
AdjacencyList(directed) == [directed |-> directed, adj |-> EmptyDict]

\* every operation returns [repr |-> the object afterwards, ret |-> its result]

ListAddVertex(r, vertex) ==
    IF DictHas(r.adj, vertex)
    THEN [repr |-> r, ret |-> FALSE]
    ELSE [repr |-> [r EXCEPT !.adj = DictSet(r.adj, vertex, EmptyDict)],
          ret |-> TRUE]
\* ListRemoveVertex without the loop that pops the vertex from the other
\* vertices' neighbor dicts
ListRemoveVertexKeepsIncoming(r, vertex) ==
    IF ~DictHas(r.adj, vertex)
    THEN [repr |-> r, ret |-> FALSE]
    ELSE [repr |-> [r EXCEPT !.adj = DictDel(r.adj, vertex)], ret |-> TRUE]

ListRemoveVertex(r, vertex) ==
    IF ~DictHas(r.adj, vertex)
    THEN [repr |-> r, ret |-> FALSE]
    ELSE LET popped == [i \in 1..Len(r.adj) |->
                           <<r.adj[i][1], DictDel(r.adj[i][2], vertex)>>]
         IN  [repr |-> [r EXCEPT !.adj = DictDel(popped, vertex)],
              ret |-> TRUE]
\* ListAddEdge without the test for an existing edge: the stored edge is
\* overwritten
ListAddEdgeOverwrites(r, source, target, weight, metadata) ==
    IF ~DictHas(r.adj, source) \/ ~DictHas(r.adj, target)
    THEN [repr |-> r, ret |-> FALSE]
    ELSE LET md == IF metadata = NONE THEN {} ELSE metadata[1]
             edge == Edge(source, target, weight, md, TRUE)
             adj1 == DictSet(r.adj, source,
                             DictSet(DictGet(r.adj, source), target, edge))
             reverse_edge == Edge(target, source, weight, md, TRUE)
             adj2 == IF ~r.directed
                     THEN DictSet(adj1, target,
                                  DictSet(DictGet(adj1, target), source,
                                          reverse_edge))
                     ELSE adj1
         IN  [repr |-> [r EXCEPT !.adj = adj2], ret |-> TRUE]

ListAddEdge(r, source, target, weight, metadata) ==
    IF ~DictHas(r.adj, source) \/ ~DictHas(r.adj, target)
    THEN [repr |-> r, ret |-> FALSE]
    ELSE IF DictHas(DictGet(r.adj, source), target)
    THEN [repr |-> r, ret |-> FALSE]
    ELSE LET md == IF metadata = NONE THEN {} ELSE metadata[1]
             edge == Edge(source, target, weight, md, TRUE)
             adj1 == DictSet(r.adj, source,
                             DictSet(DictGet(r.adj, source), target, edge))
             reverse_edge == Edge(target, source, weight, md, TRUE)
             adj2 == IF ~r.directed
                     THEN DictSet(adj1, target,
                                  DictSet(DictGet(adj1, target), source,
                                          reverse_edge))
                     ELSE adj1
         IN  [repr |-> [r EXCEPT !.adj = adj2], ret |-> TRUE]

ListRemoveEdge(r, source, target) ==
    IF ~DictHas(r.adj, source) \/ ~DictHas(DictGet(r.adj, source), target)
    THEN [repr |-> r, ret |-> FALSE]
    ELSE LET adj1 == DictSet(r.adj, source,
                             DictDel(DictGet(r.adj, source), target))
             adj2 == IF ~r.directed /\ DictHas(DictGet(adj1, target), source)
                     THEN DictSet(adj1, target,
                                  DictDel(DictGet(adj1, target), source))
                     ELSE adj1
         IN  [repr |-> [r EXCEPT !.adj = adj2], ret |-> TRUE]

ListHasVertex(r, vertex) == DictHas(r.adj, vertex)

ListHasEdge(r, source, target) ==
    DictHas(r.adj, source) /\ DictHas(DictGet(r.adj, source), target)

ListGetVertices(r) == DictKeys(r.adj)

\* the list of edges, in the order the nested loops append them
ListGetEdges(r) ==
    Flatten([i \in 1..Len(r.adj) |-> DictValues(r.adj[i][2])])

ListGetNeighbors(r, vertex) ==
    IF ~DictHas(r.adj, vertex) THEN {} ELSE DictKeys(DictGet(r.adj, vertex))

ListGetEdgeData(r, source, target) ==
    IF DictHas(r.adj, source) /\ DictHas(DictGet(r.adj, source), target)
    THEN Some(DictGet(DictGet(r.adj, source), target))
    ELSE NONE

\* --------------------------------------------------------- AdjacencyMatrix
\* AdjacencyMatrix.__init__: _vertex_to_index, _index_to_vertex and _matrix,
\* a list of rows of cells, each cell NONE or Some(edge).  Python's index i
\* is position i + 1 of a sequence.
AdjacencyMatrix(directed) ==
    [directed |-> directed, vertex_to_index |-> EmptyDict,
     index_to_vertex |-> EmptyDict, matrix |-> <<>>]

\* del seq[index]
DelAt(seq, index) ==
    [i \in 1..(Len(seq) - 1) |-> IF i <= index THEN seq[i] ELSE seq[i + 1]]

Cell(r, source_idx, target_idx) == r.matrix[source_idx + 1][target_idx + 1]

SetCell(matrix, source_idx, target_idx, value) ==
    [matrix EXCEPT ![source_idx + 1][target_idx + 1] = value]
\* MatrixAddVertex without the membership test: a vertex already present
\* is given a fresh index, row and column
MatrixAddVertexReindexes(r, vertex) ==
    LET index == Len(r.matrix)
        widened == [i \in 1..Len(r.matrix) |-> Append(r.matrix[i], NONE)]
    IN  [repr |-> [r EXCEPT
             !.vertex_to_index = DictSet(r.vertex_to_index, vertex, index),
             !.index_to_vertex = DictSet(r.index_to_vertex, index, vertex),
             !.matrix = Append(widened, [j \in 1..(index + 1) |-> NONE])],
         ret |-> TRUE]

MatrixAddVertex(r, vertex) ==
    IF DictHas(r.vertex_to_index, vertex)
    THEN [repr |-> r, ret |-> FALSE]
    ELSE LET index == Len(r.vertex_to_index)
             widened == [i \in 1..Len(r.matrix) |-> Append(r.matrix[i], NONE)]
         IN  [repr |-> [r EXCEPT
                  !.vertex_to_index = DictSet(r.vertex_to_index, vertex, index),
                  !.index_to_vertex = DictSet(r.index_to_vertex, index, vertex),
                  !.matrix = Append(widened, [j \in 1..(index + 1) |-> NONE])],
              ret |-> TRUE]
\* ShiftIndices without "del self._index_to_vertex[i]"
RECURSIVE ShiftIndicesKeepsOldKey(_, _, _, _)
ShiftIndicesKeepsOldKey(maps, items, k, index) ==
    IF k > Len(items) THEN maps
    ELSE LET v == items[k][1]
             i == items[k][2]
         IN  IF i > index
             THEN ShiftIndicesKeepsOldKey(
                      [v2i |-> DictSet(maps.v2i, v, i - 1),
                       i2v |-> DictSet(maps.i2v, i - 1, v)],
                      items, k + 1, index)
             ELSE ShiftIndicesKeepsOldKey(maps, items, k + 1, index)

\* the loop "for v, i in list(self._vertex_to_index.items())" of
\* remove_vertex, from position k of the snapshot items on; maps is
\* [v2i |-> _vertex_to_index, i2v |-> _index_to_vertex]
RECURSIVE ShiftIndices(_, _, _, _)
ShiftIndices(maps, items, k, index) ==
    IF k > Len(items) THEN maps
    ELSE LET v == items[k][1]
             i == items[k][2]
         IN  IF i > index
             THEN ShiftIndices(
                      [v2i |-> DictSet(maps.v2i, v, i - 1),
                       i2v |-> DictDel(DictSet(maps.i2v, i - 1, v), i)],
                      items, k + 1, index)
             ELSE ShiftIndices(maps, items, k + 1, index)
\* MatrixRemoveVertex deleting the last row and column (pop()) instead of
\* the row and column at the vertex's index
MatrixRemoveVertexPopsLast(r, vertex) ==
    IF ~DictHas(r.vertex_to_index, vertex)
    THEN [repr |-> r, ret |-> FALSE]
    ELSE LET index == DictGet(r.vertex_to_index, vertex)
             last_index == Len(r.matrix) - 1
             rows == DelAt(r.matrix, last_index)
             matrix1 == [i \in 1..Len(rows) |-> DelAt(rows[i], last_index)]
             v2i1 == DictDel(r.vertex_to_index, vertex)
             i2v1 == DictDel(r.index_to_vertex, index)
             maps == ShiftIndices([v2i |-> v2i1, i2v |-> i2v1], v2i1, 1, index)
         IN  [repr |-> [r EXCEPT !.matrix = matrix1,
                                 !.vertex_to_index = maps.v2i,
                                 !.index_to_vertex = maps.i2v],
              ret |-> TRUE]
\* MatrixRemoveVertex that deletes the vertex's row and, from the rows
\* that remain, the last cell (row.pop()) instead of the vertex's column
MatrixRemoveVertexPopsColumn(r, vertex) ==
    IF ~DictHas(r.vertex_to_index, vertex)
    THEN [repr |-> r, ret |-> FALSE]
    ELSE LET index == DictGet(r.vertex_to_index, vertex)
             rows == DelAt(r.matrix, index)
             matrix1 == [i \in 1..Len(rows) |-> DelAt(rows[i], Len(rows[i]) - 1)]
             v2i1 == DictDel(r.vertex_to_index, vertex)
             i2v1 == DictDel(r.index_to_vertex, index)
             maps == ShiftIndices([v2i |-> v2i1, i2v |-> i2v1], v2i1, 1, index)
         IN  [repr |-> [r EXCEPT !.matrix = matrix1,
                                 !.vertex_to_index = maps.v2i,
                                 !.index_to_vertex = maps.i2v],
              ret |-> TRUE]


MatrixRemoveVertex(r, vertex) ==
    IF ~DictHas(r.vertex_to_index, vertex)
    THEN [repr |-> r, ret |-> FALSE]
    ELSE LET index == DictGet(r.vertex_to_index, vertex)
             rows == DelAt(r.matrix, index)
             matrix1 == [i \in 1..Len(rows) |-> DelAt(rows[i], index)]
             v2i1 == DictDel(r.vertex_to_index, vertex)
             i2v1 == DictDel(r.index_to_vertex, index)
             maps == ShiftIndices([v2i |-> v2i1, i2v |-> i2v1], v2i1, 1, index)
         IN  [repr |-> [r EXCEPT !.matrix = matrix1,
                                 !.vertex_to_index = maps.v2i,
                                 !.index_to_vertex = maps.i2v],
              ret |-> TRUE]

\* MatrixAddEdge that refuses an edge from a vertex to itself
MatrixAddEdgeRejectsLoop(r, source, target, weight, metadata) ==
    IF ~DictHas(r.vertex_to_index, source) \/ ~DictHas(r.vertex_to_index, target)
       \/ source = target
    THEN [repr |-> r, ret |-> FALSE]
    ELSE LET source_idx == DictGet(r.vertex_to_index, source)
             target_idx == DictGet(r.vertex_to_index, target)
         IN  IF Cell(r, source_idx, target_idx) # NONE
             THEN [repr |-> r, ret |-> FALSE]
             ELSE LET md == IF metadata = NONE THEN {} ELSE metadata[1]
                      edge == Edge(source, target, weight, md, TRUE)
                      m1 == SetCell(r.matrix, source_idx, target_idx, Some(edge))
                      reverse_edge == Edge(target, source, weight, md, TRUE)
                      m2 == IF ~r.directed
                            THEN SetCell(m1, target_idx, source_idx,
                                         Some(reverse_edge))
                            ELSE m1
                  IN  [repr |-> [r EXCEPT !.matrix = m2], ret |-> TRUE]

MatrixAddEdge(r, source, target, weight, metadata) ==
    IF ~DictHas(r.vertex_to_index, source) \/ ~DictHas(r.vertex_to_index, target)
    THEN [repr |-> r, ret |-> FALSE]
    ELSE LET source_idx == DictGet(r.vertex_to_index, source)
             target_idx == DictGet(r.vertex_to_index, target)
         IN  IF Cell(r, source_idx, target_idx) # NONE
             THEN [repr |-> r, ret |-> FALSE]
             ELSE LET md == IF metadata = NONE THEN {} ELSE metadata[1]
                      edge == Edge(source, target, weight, md, TRUE)
                      m1 == SetCell(r.matrix, source_idx, target_idx, Some(edge))
                      reverse_edge == Edge(target, source, weight, md, TRUE)
                      m2 == IF ~r.directed
                            THEN SetCell(m1, target_idx, source_idx,
                                         Some(reverse_edge))
                            ELSE m1
                  IN  [repr |-> [r EXCEPT !.matrix = m2], ret |-> TRUE]
\* MatrixRemoveEdge that clears the cell of the requested direction only
MatrixRemoveEdgeOneCell(r, source, target) ==
    IF ~DictHas(r.vertex_to_index, source) \/ ~DictHas(r.vertex_to_index, target)
    THEN [repr |-> r, ret |-> FALSE]
    ELSE LET source_idx == DictGet(r.vertex_to_index, source)
             target_idx == DictGet(r.vertex_to_index, target)
         IN  IF Cell(r, source_idx, target_idx) = NONE
             THEN [repr |-> r, ret |-> FALSE]
             ELSE [repr |-> [r EXCEPT !.matrix =
                               SetCell(r.matrix, source_idx, target_idx, NONE)],
                   ret |-> TRUE]

MatrixRemoveEdge(r, source, target) ==
    IF ~DictHas(r.vertex_to_index, source) \/ ~DictHas(r.vertex_to_index, target)
    THEN [repr |-> r, ret |-> FALSE]
    ELSE LET source_idx == DictGet(r.vertex_to_index, source)
             target_idx == DictGet(r.vertex_to_index, target)
         IN  IF Cell(r, source_idx, target_idx) = NONE
             THEN [repr |-> r, ret |-> FALSE]
             ELSE LET m1 == SetCell(r.matrix, source_idx, target_idx, NONE)
                      m2 == IF ~r.directed
                            THEN SetCell(m1, target_idx, source_idx, NONE)
                            ELSE m1
                  IN  [repr |-> [r EXCEPT !.matrix = m2], ret |-> TRUE]

MatrixHasVertex(r, vertex) == DictHas(r.vertex_to_index, vertex)

MatrixHasEdge(r, source, target) ==
    IF ~DictHas(r.vertex_to_index, source) \/ ~DictHas(r.vertex_to_index, target)
    THEN FALSE
    ELSE Cell(r, DictGet(r.vertex_to_index, source),
                 DictGet(r.vertex_to_index, target)) # NONE

MatrixGetVertices(r) == DictKeys(r.vertex_to_index)

\* the list of edges, row by row, skipping the empty cells
MatrixGetEdges(r) ==
    Flatten([i \in 1..Len(r.matrix) |-> Flatten(r.matrix[i])])

MatrixGetNeighbors(r, vertex) ==
    IF ~DictHas(r.vertex_to_index, vertex) THEN {}
    ELSE LET source_idx == DictGet(r.vertex_to_index, vertex)
             row == r.matrix[source_idx + 1]
         IN  {DictGet(r.index_to_vertex, target_idx - 1) :
                 target_idx \in {j \in 1..Len(row) : row[j] # NONE}}

MatrixGetEdgeData(r, source, target) ==
    IF ~DictHas(r.vertex_to_index, source) \/ ~DictHas(r.vertex_to_index, target)
    THEN NONE
    ELSE Cell(r, DictGet(r.vertex_to_index, source),
                 DictGet(r.vertex_to_index, target))

\* -------------------------------------------------------------------- Graph
\* Graph.__init__ with a valid representation name
Graph(directed, weighted, representation) ==
    [directed |-> directed, weighted |-> weighted,
     representation |-> representation,
     repr |-> IF representation = "adjacency_list"
              THEN AdjacencyList(directed)
              ELSE AdjacencyMatrix(directed)]

\* calls through self._repr reach the class of the object it holds
ReprAddVertex(g, v) ==
    IF g.representation = "adjacency_list"
    THEN ListAddVertex(g.repr, v) ELSE MatrixAddVertex(g.repr, v)
ReprRemoveVertex(g, v) ==
    IF g.representation = "adjacency_list"
    THEN ListRemoveVertex(g.repr, v) ELSE MatrixRemoveVertex(g.repr, v)
ReprAddEdge(g, s, t, w, md) ==
    IF g.representation = "adjacency_list"
    THEN ListAddEdge(g.repr, s, t, w, md) ELSE MatrixAddEdge(g.repr, s, t, w, md)
ReprRemoveEdge(g, s, t) ==
    IF g.representation = "adjacency_list"
    THEN ListRemoveEdge(g.repr, s, t) ELSE MatrixRemoveEdge(g.repr, s, t)
ReprHasVertex(g, v) ==
    IF g.representation = "adjacency_list"
    THEN ListHasVertex(g.repr, v) ELSE MatrixHasVertex(g.repr, v)
ReprHasEdge(g, s, t) ==
    IF g.representation = "adjacency_list"
    THEN ListHasEdge(g.repr, s, t) ELSE MatrixHasEdge(g.repr, s, t)
ReprGetVertices(g) ==
    IF g.representation = "adjacency_list"
    THEN ListGetVertices(g.repr) ELSE MatrixGetVertices(g.repr)
ReprGetEdges(g) ==
    IF g.representation = "adjacency_list"
    THEN ListGetEdges(g.repr) ELSE MatrixGetEdges(g.repr)
ReprGetNeighbors(g, v) ==
    IF g.representation = "adjacency_list"
    THEN ListGetNeighbors(g.repr, v) ELSE MatrixGetNeighbors(g.repr, v)
ReprGetEdgeData(g, s, t) ==
    IF g.representation = "adjacency_list"
    THEN ListGetEdgeData(g.repr, s, t) ELSE MatrixGetEdgeData(g.repr, s, t)

\* a Graph method's outcome: the graph afterwards, "ok" or the kind of the
\* exception raised, and the value returned (NONE when it returns nothing)
Outcome(g, err, ret) == [graph |-> g, err |-> err, ret |-> ret]

\* sorted(S) compares its elements and raises TypeError on None
SortedRaises(S) == \E a \in S, b \in S : a # b /\ ~Comparable(a, b)

\* the methods below return "ok" or the kind of the exception they raise
ValidateVertexHashable(vertex) ==
    IF Hashable(vertex) THEN "ok" ELSE "TypeError"

\* "vertex in dict" hashes the vertex; the message of VertexNotFoundError
\* is built with sorted(get_vertices())
ValidateVertexExists(g, vertex) ==
    IF ~Hashable(vertex) THEN "TypeError"
    ELSE IF ReprHasVertex(g, vertex) THEN "ok"
    ELSE IF SortedRaises(ReprGetVertices(g)) THEN "TypeError"
    ELSE "VertexNotFoundError"

ValidateEdgeVertices(g, source, target) ==
    IF ValidateVertexExists(g, source) # "ok"
    THEN ValidateVertexExists(g, source)
    ELSE ValidateVertexExists(g, target)

\* has_edge hashes source, and target only when source is a vertex
GraphHasEdge(g, source, target) ==
    IF ~Hashable(source) THEN Outcome(g, "TypeError", NONE)
    ELSE IF ~ReprHasVertex(g, source) THEN Outcome(g, "ok", FALSE)
    ELSE IF ~Hashable(target) THEN Outcome(g, "TypeError", NONE)
    ELSE Outcome(g, "ok", ReprHasEdge(g, source, target))

ValidateEdgeExists(g, source, target) ==
    LET has == GraphHasEdge(g, source, target)
    IN  IF has.err # "ok" THEN has.err
        ELSE IF ~has.ret THEN "EdgeNotFoundError"
        ELSE "ok"

GraphAddVertex(g, vertex) ==
    IF ValidateVertexHashable(vertex) # "ok"
    THEN Outcome(g, ValidateVertexHashable(vertex), NONE)
    ELSE Outcome([g EXCEPT !.repr = ReprAddVertex(g, vertex).repr], "ok", NONE)

GraphRemoveVertex(g, vertex) ==
    IF ValidateVertexExists(g, vertex) # "ok"
    THEN Outcome(g, ValidateVertexExists(g, vertex), NONE)
    ELSE Outcome([g EXCEPT !.repr = ReprRemoveVertex(g, vertex).repr], "ok", NONE)

GraphVertices(g) == ReprGetVertices(g)
GraphEdges(g) == ReprGetEdges(g)
GraphNumVertices(g) == Cardinality(GraphVertices(g))
GraphNumEdges(g) == Len(GraphEdges(g))

\* metadata is NONE or Some(dict); "metadata or {}" replaces None and {}
GraphAddEdge(g, source, target, weight, metadata) ==
    IF ValidateEdgeVertices(g, source, target) # "ok"
    THEN Outcome(g, ValidateEdgeVertices(g, source, target), NONE)
    ELSE LET md == IF metadata = NONE \/ metadata = Some({})
                   THEN Some({}) ELSE metadata
         IN  Outcome([g EXCEPT !.repr =
                         ReprAddEdge(g, source, target, weight, md).repr],
                     "ok", NONE)
\* GraphRemoveEdge that, finding no edge from source to target, removes the
\* edge from target to source before it raises EdgeNotFoundError
GraphRemoveEdgeTriesReverse(g, source, target) ==
    IF ValidateEdgeVertices(g, source, target) # "ok"
    THEN Outcome(g, ValidateEdgeVertices(g, source, target), NONE)
    ELSE IF ValidateEdgeExists(g, source, target) # "ok"
    THEN Outcome([g EXCEPT !.repr = ReprRemoveEdge(g, target, source).repr],
                 ValidateEdgeExists(g, source, target), NONE)
    ELSE Outcome([g EXCEPT !.repr = ReprRemoveEdge(g, source, target).repr],
                 "ok", NONE)

GraphRemoveEdge(g, source, target) ==
    IF ValidateEdgeVertices(g, source, target) # "ok"
    THEN Outcome(g, ValidateEdgeVertices(g, source, target), NONE)
    ELSE IF ValidateEdgeExists(g, source, target) # "ok"
    THEN Outcome(g, ValidateEdgeExists(g, source, target), NONE)
    ELSE Outcome([g EXCEPT !.repr = ReprRemoveEdge(g, source, target).repr],
                 "ok", NONE)
\* GraphGetEdge without _validate_edge_exists: a missing edge gives None
GraphGetEdgeSkipsValidation(g, source, target) ==
    IF ~Hashable(source) \/ ~Hashable(target)
    THEN Outcome(g, "TypeError", NONE)
    ELSE Outcome(g, "ok", ReprGetEdgeData(g, source, target))

GraphGetEdge(g, source, target) ==
    IF ValidateEdgeExists(g, source, target) # "ok"
    THEN Outcome(g, ValidateEdgeExists(g, source, target), NONE)
    ELSE Outcome(g, "ok", ReprGetEdgeData(g, source, target))

GraphNeighbors(g, vertex) ==
    IF ValidateVertexExists(g, vertex) # "ok"
    THEN Outcome(g, ValidateVertexExists(g, vertex), NONE)
    ELSE Outcome(g, "ok", ReprGetNeighbors(g, vertex))

GraphDegree(g, vertex) ==
    IF ValidateVertexExists(g, vertex) # "ok"
    THEN Outcome(g, ValidateVertexExists(g, vertex), NONE)
    ELSE Outcome(g, "ok", Cardinality(GraphNeighbors(g, vertex).ret))
\* in_degree counts the edges of edges() whose target equals the vertex
InDegreeCount(edges, vertex) ==
    Cardinality({i \in 1..Len(edges) : edges[i].target = vertex})

\* the direction is checked before the vertex
GraphInDegree(g, vertex) ==
    IF ~g.directed THEN Outcome(g, "ValueError", NONE)
    ELSE IF ValidateVertexExists(g, vertex) # "ok"
    THEN Outcome(g, ValidateVertexExists(g, vertex), NONE)
    ELSE Outcome(g, "ok", InDegreeCount(GraphEdges(g), vertex))

\* GraphOutDegree that counts the edges arriving at the vertex
GraphOutDegreeCountsIncoming(g, vertex) ==
    IF ~g.directed THEN Outcome(g, "ValueError", NONE)
    ELSE IF ValidateVertexExists(g, vertex) # "ok"
    THEN Outcome(g, ValidateVertexExists(g, vertex), NONE)
    ELSE Outcome(g, "ok", InDegreeCount(GraphEdges(g), vertex))

\* out_degree is len(neighbors(vertex))
GraphOutDegree(g, vertex) ==
    IF ~g.directed THEN Outcome(g, "ValueError", NONE)
    ELSE IF ValidateVertexExists(g, vertex) # "ok"
    THEN Outcome(g, ValidateVertexExists(g, vertex), NONE)
    ELSE Outcome(g, "ok", Cardinality(GraphNeighbors(g, vertex).ret))

\* Graph defines no convert_representation: the call raises AttributeError
GraphConvertRepresentation(g, target) == Outcome(g, "AttributeError", NONE)

\* --------------------------------------------------------------------- Tree
\* Tree.__init__ for a hashable root: _root, _graph and _parent_map
Tree(root) ==
    [root |-> root,
     graph |-> GraphAddVertex(Graph(TRUE, FALSE, "adjacency_list"), root).graph,
     parent_map |-> EmptyDict]

\* a Tree method's outcome: the tree afterwards, "ok" or the kind of the
\* exception raised, and the value returned
TreeOutcome(t, err, ret) == [tree |-> t, err |-> err, ret |-> ret]
\* TreeAddChild that looks for the child among the keys of _parent_map
\* instead of the vertices of the graph
TreeAddChildChecksParentMap(t, parent, child) ==
    IF ~Hashable(parent) THEN TreeOutcome(t, "TypeError", NONE)
    ELSE IF parent \notin GraphVertices(t.graph)
    THEN TreeOutcome(t, "VertexNotFoundError", NONE)
    ELSE IF ~Hashable(child) THEN TreeOutcome(t, "TypeError", NONE)
    ELSE IF DictHas(t.parent_map, child)
    THEN IF child \in GraphNeighbors(t.graph, parent).ret
         THEN TreeOutcome(t, "ValueError", NONE)
         ELSE TreeOutcome(t, "CycleError", NONE)
    ELSE LET g1a == GraphAddVertex(t.graph, child).graph
             g2a == GraphAddEdge(g1a, parent, child, 1, NONE).graph
         IN  TreeOutcome([t EXCEPT !.graph = g2a,
                                   !.parent_map = DictSet(t.parent_map, child, parent)],
                         "ok", NONE)
\* TreeAddChild that looks at the child before it looks at the parent
TreeAddChildChecksChildFirst(t, parent, child) ==
    IF ~Hashable(child) THEN TreeOutcome(t, "TypeError", NONE)
    ELSE IF child \in GraphVertices(t.graph)
    THEN IF Hashable(parent) /\ parent \in GraphVertices(t.graph)
            /\ child \in GraphNeighbors(t.graph, parent).ret
         THEN TreeOutcome(t, "ValueError", NONE)
         ELSE TreeOutcome(t, "CycleError", NONE)
    ELSE IF ~Hashable(parent) THEN TreeOutcome(t, "TypeError", NONE)
    ELSE IF parent \notin GraphVertices(t.graph)
    THEN TreeOutcome(t, "VertexNotFoundError", NONE)
    ELSE LET g1a == GraphAddVertex(t.graph, child).graph
             g2a == GraphAddEdge(g1a, parent, child, 1, NONE).graph
         IN  TreeOutcome([t EXCEPT !.graph = g2a,
                                   !.parent_map = DictSet(t.parent_map, child, parent)],
                         "ok", NONE)

\* "x in self._graph.vertices()" hashes x
TreeAddChild(t, parent, child) ==
    IF ~Hashable(parent) THEN TreeOutcome(t, "TypeError", NONE)
    ELSE IF parent \notin GraphVertices(t.graph)
    THEN TreeOutcome(t, "VertexNotFoundError", NONE)
    ELSE IF ~Hashable(child) THEN TreeOutcome(t, "TypeError", NONE)
    ELSE IF child \in GraphVertices(t.graph)
    THEN IF child \in GraphNeighbors(t.graph, parent).ret
         THEN TreeOutcome(t, "ValueError", NONE)
         ELSE TreeOutcome(t, "CycleError", NONE)
    ELSE LET g1a == GraphAddVertex(t.graph, child).graph
             g2a == GraphAddEdge(g1a, parent, child, 1, NONE).graph
         IN  TreeOutcome([t EXCEPT !.graph = g2a,
                                   !.parent_map = DictSet(t.parent_map, child, parent)],
                         "ok", NONE)

\* a set of vertices as the sequence a for loop visits (ascending)
RECURSIVE SetToSeq(_)
SetToSeq(S) ==
    IF S = {} THEN <<>>
    ELSE LET m == CHOOSE x \in S : \A y \in S : x <= y
         IN  <<m>> \o SetToSeq(S \ {m})

\* the while loop of remove_subtree; it does not end when a cycle is
\* reachable from node, which is reported once more vertices were popped
\* than any acyclic graph of this size allows
RECURSIVE SubtreeBfs(_, _, _, _)
SubtreeBfs(g, queue, to_remove, fuel) ==
    IF queue = <<>> THEN [to_remove |-> to_remove, ends |-> TRUE]
    ELSE IF fuel = 0 THEN [to_remove |-> to_remove, ends |-> FALSE]
    ELSE LET current == Head(queue)
         IN  SubtreeBfs(g,
                        Tail(queue) \o SetToSeq(GraphNeighbors(g, current).ret),
                        Append(to_remove, current), fuel - 1)
\* RemoveAll that leaves the parent map as it is
RECURSIVE RemoveAllKeepsParentMap(_, _, _)
RemoveAllKeepsParentMap(t, to_remove, k) ==
    IF k > Len(to_remove) THEN TreeOutcome(t, "ok", NONE)
    ELSE LET rm == GraphRemoveVertex(t.graph, to_remove[k])
         IN  IF rm.err # "ok"
             THEN TreeOutcome(t, rm.err, NONE)
             ELSE RemoveAllKeepsParentMap([t EXCEPT !.graph = rm.graph],
                                          to_remove, k + 1)

\* the for loop of remove_subtree from position k of to_remove on
RECURSIVE RemoveAll(_, _, _)
RemoveAll(t, to_remove, k) ==
    IF k > Len(to_remove) THEN TreeOutcome(t, "ok", NONE)
    ELSE LET vertex == to_remove[k]
             pm == IF DictHas(t.parent_map, vertex)
                   THEN DictDel(t.parent_map, vertex) ELSE t.parent_map
             rm == GraphRemoveVertex(t.graph, vertex)
         IN  IF rm.err # "ok"
             THEN TreeOutcome([t EXCEPT !.parent_map = pm], rm.err, NONE)
             ELSE RemoveAll([t EXCEPT !.parent_map = pm, !.graph = rm.graph],
                            to_remove, k + 1)
\* TreeRemoveSubtree that removes the node alone and leaves its descendants
TreeRemoveSubtreeNodeOnly(t, node) ==
    IF ~Hashable(node) THEN TreeOutcome(t, "TypeError", NONE)
    ELSE IF node \notin GraphVertices(t.graph)
    THEN TreeOutcome(t, "VertexNotFoundError", NONE)
    ELSE RemoveAll(t, <<node>>, 1)

TreeRemoveSubtree(t, node) ==
    IF ~Hashable(node) THEN TreeOutcome(t, "TypeError", NONE)
    ELSE IF node \notin GraphVertices(t.graph)
    THEN TreeOutcome(t, "VertexNotFoundError", NONE)
    ELSE LET bfs == SubtreeBfs(t.graph, <<node>>, <<>>,
                               2 ^ GraphNumVertices(t.graph))
         IN  IF ~bfs.ends THEN TreeOutcome(t, "diverges", NONE)
             ELSE RemoveAll(t, bfs.to_remove, 1)

\* the value returned is self._parent_map.get(vertex): the parent, or None
TreeParent(t, vertex) ==
    IF ~Hashable(vertex) THEN TreeOutcome(t, "TypeError", NONE)
    ELSE IF vertex \notin GraphVertices(t.graph)
    THEN TreeOutcome(t, "VertexNotFoundError", NONE)
    ELSE TreeOutcome(t, "ok", IF DictHas(t.parent_map, vertex)
                              THEN DictGet(t.parent_map, vertex) ELSE None)

TreeChildren(t, vertex) ==
    LET n == GraphNeighbors(t.graph, vertex)
    IN  TreeOutcome(t, n.err, n.ret)

TreeVertices(t) == GraphVertices(t.graph)
\* Tree.edges(): the set of (source, target) tuples
TreeEdges(t) == {<<e.source, e.target>> : e \in SeqToSet(GraphEdges(t.graph))}
TreeNumVertices(t) == GraphNumVertices(t.graph)
TreeNumEdges(t) == GraphNumEdges(t.graph)
\* the root property returns self._root
TreeRoot(t) == t.root

TreeIsLeaf(t, vertex) ==
    IF ~Hashable(vertex) THEN TreeOutcome(t, "TypeError", NONE)
    ELSE IF vertex \notin GraphVertices(t.graph)
    THEN TreeOutcome(t, "VertexNotFoundError", NONE)
    ELSE IF TreeChildren(t, vertex).err # "ok"
    THEN TreeOutcome(t, TreeChildren(t, vertex).err, NONE)
    ELSE TreeOutcome(t, "ok", Cardinality(TreeChildren(t, vertex).ret) = 0)

\* TreeIsRoot without the membership test
TreeIsRootSkipsCheck(t, vertex) ==
    IF ~Hashable(vertex) THEN TreeOutcome(t, "TypeError", NONE)
    ELSE TreeOutcome(t, "ok", vertex = t.root)

TreeIsRoot(t, vertex) ==
    IF ~Hashable(vertex) THEN TreeOutcome(t, "TypeError", NONE)
    ELSE IF vertex \notin GraphVertices(t.graph)
    THEN TreeOutcome(t, "VertexNotFoundError", NONE)
    ELSE TreeOutcome(t, "ok", vertex = t.root)

\* the while loop of height(): queue holds (vertex, depth) pairs; as in
\* SubtreeBfs the loop does not end when a cycle is reachable from the root
RECURSIVE HeightBfs(_, _, _, _)
HeightBfs(t, queue, max_depth, fuel) ==
    IF queue = <<>> THEN TreeOutcome(t, "ok", max_depth)
    ELSE IF fuel = 0 THEN TreeOutcome(t, "diverges", NONE)
    ELSE LET vertex == Head(queue)[1]
             depth == Head(queue)[2]
             children == TreeChildren(t, vertex)
         IN  IF children.err # "ok" THEN TreeOutcome(t, children.err, NONE)
             ELSE HeightBfs(t,
                            Tail(queue) \o
                                [i \in 1..Cardinality(children.ret) |->
                                    <<SetToSeq(children.ret)[i], depth + 1>>],
                            IF depth > max_depth THEN depth ELSE max_depth,
                            fuel - 1)

TreeHeight(t) ==
    IF TreeNumVertices(t) = 1 THEN TreeOutcome(t, "ok", 0)
    ELSE HeightBfs(t, <<<<t.root, 0>>>>, 0, 2 ^ TreeNumVertices(t))

\* the while loop of depth(): it walks the parent map from current and does
\* not end when the walk enters a cycle that misses the root, which is
\* reported once more steps were taken than the parent map has entries
RECURSIVE DepthWalk(_, _, _, _)
DepthWalk(t, current, depth, fuel) ==
    IF current = t.root THEN TreeOutcome(t, "ok", depth)
    ELSE IF fuel = 0 THEN TreeOutcome(t, "diverges", NONE)
    ELSE LET parent == TreeParent(t, current)
         IN  IF parent.err # "ok" THEN TreeOutcome(t, parent.err, NONE)
             ELSE IF parent.ret = None THEN TreeOutcome(t, "ValueError", NONE)
             ELSE DepthWalk(t, parent.ret, depth + 1, fuel - 1)

TreeDepth(t, vertex) ==
    IF ~Hashable(vertex) THEN TreeOutcome(t, "TypeError", NONE)
    ELSE IF vertex \notin GraphVertices(t.graph)
    THEN TreeOutcome(t, "VertexNotFoundError", NONE)
    ELSE IF vertex = t.root THEN TreeOutcome(t, "ok", 0)
    ELSE DepthWalk(t, vertex, 0, Len(t.parent_map) + 1)

\* a reference to a Graph object as a holder of the Tree t sees it: either
\* the object t._graph itself or another object, given by its contents
GraphAt(ref, t) == IF ref.self_graph THEN t.graph ELSE ref.other[1]
\* TreeToGraph that returns a copy of the graph made at the time of the call
TreeToGraphCopies(t) == [self_graph |-> FALSE, other |-> Some(t.graph)]

\* Tree.to_graph: "return self._graph", the object itself
TreeToGraph(t) == [self_graph |-> TRUE, other |-> NONE]
\* BuildParentMap that records the target as the parent of the source
RECURSIVE BuildParentMapReversed(_, _, _)
BuildParentMapReversed(pm, edges, k) ==
    IF k > Len(edges) THEN pm
    ELSE BuildParentMapReversed(DictSet(pm, edges[k].source, edges[k].target),
                                edges, k + 1)

\* the loop "for edge in graph.edges()" of from_graph from position k on
RECURSIVE BuildParentMap(_, _, _)
BuildParentMap(pm, edges, k) ==
    IF k > Len(edges) THEN pm
    ELSE BuildParentMap(DictSet(pm, edges[k].target, edges[k].source),
                        edges, k + 1)

\* Tree.from_graph: ret is Some(tree) when a Tree is returned
TreeFromGraph(graph, root) ==
    IF ~graph.directed THEN TreeOutcome(NONE, "ValueError", NONE)
    ELSE IF ~Hashable(root) THEN TreeOutcome(NONE, "TypeError", NONE)
    ELSE LET t == [root |-> root, graph |-> graph,
                   parent_map |-> BuildParentMap(EmptyDict, GraphEdges(graph), 1)]
         IN  TreeOutcome(NONE, "ok", Some(t))

\* ------------------------------------------------------------------- state
\* g1, g2: two Graph objects built with the same directed flag, g1 on an
\*         adjacency list and g2 on an adjacency matrix, that receive the
\*         same calls;  pre1, pre2: what they were before the last call
\* tree:   a Tree object;  tpre: what it was before the last call
\* last:   the last call: its name, arguments and what it raised/returned
\*         (op is "none" once the caller has taken the result)
\* nops:   the number of calls on g1 and g2 that returned normally
\* exported: NONE, or the reference a to_graph() call on tree returned
\* edge1, edge2: two Edge objects (NONE before they are constructed);
\*         epre: the pair they were before the last call
\* fifo:   a FIFOQueue object;  pq: a PriorityQueue object
\* log:    what was pushed to and popped from fifo and pq so far
\* dicts:  the metadata dict objects of the specification that follows
\*         object identity: dicts[id] is the content of the object id
VARIABLES g1, g2, pre1, pre2, tree, tpre, last, nops, exported,
          edge1, edge2, epre, fifo, pq, log, dicts

graphVars == <<g1, g2, pre1, pre2, nops>>
treeVars == <<tree, tpre, exported>>
edgeVars == <<edge1, edge2, epre>>
containerVars == <<fifo, pq, log>>
heapVars == <<dicts>>
vars == <<graphVars, treeVars, edgeVars, containerVars, heapVars, last>>

Call(op, a, b, weight, metadata, name, o1, o2) ==
    [op |-> op, a |-> a, b |-> b, weight |-> weight, metadata |-> metadata,
     name |-> name, err1 |-> o1.err, err2 |-> o2.err,
     ret1 |-> o1.ret, ret2 |-> o2.ret]

NoCall == Call("none", None, None, 1, NONE, "", Outcome(NONE, "ok", NONE),
               Outcome(NONE, "ok", NONE))

VertexArgs == Vertices \cup {Unhashable}
TreeVertexArgs == TreeVertexValues \cup {Unhashable}
Representations == {"adjacency_list", "adjacency_matrix"}

\* the objects of the edge and container specifications as they are when
\* nothing was constructed: no Edge, an empty FIFOQueue, an empty
\* PriorityQueue
EdgeStart == edge1 = NONE /\ edge2 = NONE /\ epre = <<NONE, NONE>>
ContainerStart ==
    /\ fifo = FIFOQueue
    /\ pq = PriorityQueue
    /\ log = [pushed |-> <<>>, popped |-> <<>>, held |-> <<>>]
\* no metadata dict object exists
HeapStart == dicts = <<>>

\* ------------------------------------------------- the graph specification
Init ==
    /\ \E directed \in BOOLEAN :
          /\ g1 = Graph(directed, TRUE, "adjacency_list")
          /\ g2 = Graph(directed, TRUE, "adjacency_matrix")
    /\ pre1 = g1
    /\ pre2 = g2
    /\ tree = Tree(None)
    /\ tpre = tree
    /\ last = NoCall
    /\ nops = 0
    /\ exported = NONE
    /\ EdgeStart
    /\ ContainerStart
    /\ HeapStart

\* one call, made on both graphs
Step(call, o1, o2) ==
    /\ last.op = "none"
    /\ nops < MaxOps
    /\ g1' = o1.graph
    /\ g2' = o2.graph
    /\ pre1' = g1
    /\ pre2' = g2
    /\ last' = call
    /\ nops' = IF o1.err = "ok" THEN nops + 1 ELSE nops
    /\ UNCHANGED <<treeVars, edgeVars, containerVars, heapVars>>

\* the caller takes the result of the call; the next call can follow
Return ==
    /\ last.op # "none"
    /\ last' = NoCall
    /\ pre1' = g1
    /\ pre2' = g2
    /\ tpre' = tree
    /\ UNCHANGED <<g1, g2, tree, nops, exported, edgeVars, containerVars, heapVars>>

AddVertex ==
    \E v \in VertexArgs :
        LET o1 == GraphAddVertex(g1, v)
            o2 == GraphAddVertex(g2, v)
        IN  Step(Call("add_vertex", v, v, 1, NONE, "", o1, o2), o1, o2)

RemoveVertex ==
    \E v \in VertexArgs :
        LET o1 == GraphRemoveVertex(g1, v)
            o2 == GraphRemoveVertex(g2, v)
        IN  Step(Call("remove_vertex", v, v, 1, NONE, "", o1, o2), o1, o2)

AddEdge ==
    \E s \in VertexArgs, t \in VertexArgs, p \in EdgeArgs :
        LET w == p[1]
            md == p[2]
            o1 == GraphAddEdge(g1, s, t, w, md)
            o2 == GraphAddEdge(g2, s, t, w, md)
        IN  Step(Call("add_edge", s, t, w, md, "", o1, o2), o1, o2)

RemoveEdge ==
    \E s \in VertexArgs, t \in VertexArgs :
        LET o1 == GraphRemoveEdge(g1, s, t)
            o2 == GraphRemoveEdge(g2, s, t)
        IN  Step(Call("remove_edge", s, t, 1, NONE, "", o1, o2), o1, o2)

ConvertRepresentation ==
    \E target \in Representations :
        LET o1 == GraphConvertRepresentation(g1, target)
            o2 == GraphConvertRepresentation(g2, target)
        IN  Step(Call("convert_representation", None, None, 1, NONE, target,
                      o1, o2), o1, o2)

\* Tree.from_graph(g, root) on each of the two graphs, which it leaves as
\* they are; ret1 and ret2 hold the trees returned
FromGraph ==
    \E root \in VertexArgs :
        LET o1 == TreeFromGraph(g1, root)
            o2 == TreeFromGraph(g2, root)
        IN  Step(Call("from_graph", root, root, 1, NONE, "", o1, o2),
                 Outcome(g1, o1.err, o1.ret), Outcome(g2, o2.err, o2.ret))

Next ==
    \/ AddVertex
    \/ RemoveVertex
    \/ AddEdge
    \/ RemoveEdge
    \/ ConvertRepresentation
    \/ FromGraph
    \/ Return

Spec == Init /\ [][Next]_vars

\* -------------------------------------------------- the edge specification
\* the vertices given to Edge: None, two integers, and the integer whose
\* hash is hash(None)
EdgeVertexValues == {None, 1, 2, Hash(None)}
EdgeVertexArgs == EdgeVertexValues \cup {Unhashable}
\* the metadata given to Edge: {} (the default) and {"type": "road"}
EdgeMetadataArgs == {{}, RoadMeta}

\* a call that constructs or updates edge1 and edge2; a and b hold what
\* was given for the first and for the second edge
EdgeCall(op, args1, args2, o1, o2) ==
    [op |-> op, a |-> args1, b |-> args2, weight |-> 1, metadata |-> NONE,
     name |-> "", err1 |-> o1.err, err2 |-> o2.err,
     ret1 |-> o1.ret, ret2 |-> o2.ret]

EdgeInit ==
    /\ g1 = Graph(TRUE, TRUE, "adjacency_list")
    /\ g2 = Graph(TRUE, TRUE, "adjacency_matrix")
    /\ pre1 = g1
    /\ pre2 = g2
    /\ tree = Tree(None)
    /\ tpre = tree
    /\ last = NoCall
    /\ nops = 0
    /\ exported = NONE
    /\ EdgeStart
    /\ ContainerStart
    /\ HeapStart

\* edge1 = Edge(s1, t1, w1, m1, d1); edge2 = Edge(s2, t2, w2, m2, d2), once
Construct ==
    /\ last.op = "none"
    /\ \E s1 \in EdgeVertexArgs, t1 \in EdgeVertexArgs, w1 \in Weights,
          m1 \in EdgeMetadataArgs, d1 \in BOOLEAN,
          s2 \in EdgeVertexArgs, t2 \in EdgeVertexArgs, w2 \in Weights,
          m2 \in EdgeMetadataArgs, d2 \in BOOLEAN :
          LET o1 == EdgeCreate(s1, t1, w1, m1, d1)
              o2 == EdgeCreate(s2, t2, w2, m2, d2)
          IN  /\ edge1' = o1.ret
              /\ edge2' = o2.ret
              /\ epre' = <<edge1, edge2>>
              /\ last' = EdgeCall("Edge", <<s1, t1, w1, m1, d1>>,
                                  <<s2, t2, w2, m2, d2>>, o1, o2)
    /\ UNCHANGED <<graphVars, treeVars, containerVars, heapVars>>

\* edge1.metadata["type"] = "rail"
SetMetadataOfEdge1 ==
    /\ edge1 # NONE
    /\ edge1' = Some(EdgeSetMetadata(edge1[1], "type", "rail"))
    /\ epre' = <<edge1, edge2>>
    /\ last' = EdgeCall("set_metadata", <<1>>, <<"type", "rail">>,
                        [err |-> "ok", ret |-> NONE], [err |-> "ok", ret |-> NONE])
    /\ UNCHANGED <<graphVars, treeVars, containerVars, heapVars, edge2>>

\* edge2.metadata["type"] = "rail"
SetMetadataOfEdge2 ==
    /\ edge2 # NONE
    /\ edge2' = Some(EdgeSetMetadata(edge2[1], "type", "rail"))
    /\ epre' = <<edge1, edge2>>
    /\ last' = EdgeCall("set_metadata", <<2>>, <<"type", "rail">>,
                        [err |-> "ok", ret |-> NONE], [err |-> "ok", ret |-> NONE])
    /\ UNCHANGED <<graphVars, treeVars, containerVars, heapVars, edge1>>

EdgeNext ==
    \/ Construct
    \/ SetMetadataOfEdge1
    \/ SetMetadataOfEdge2

EdgeSpec == EdgeInit /\ [][EdgeNext]_vars

\* -------------------------------------------------- the tree specification
TreeInit ==
    /\ \E root \in TreeVertexValues : tree = Tree(root)
    /\ tpre = tree
    /\ g1 = Graph(TRUE, TRUE, "adjacency_list")
    /\ g2 = Graph(TRUE, TRUE, "adjacency_matrix")
    /\ pre1 = g1
    /\ pre2 = g2
    /\ last = NoCall
    /\ nops = 0
    /\ exported = NONE
    /\ EdgeStart
    /\ ContainerStart
    /\ HeapStart

TreeStep(call, o) ==
    /\ last.op = "none"
    /\ tree' = o.tree
    /\ tpre' = tree
    /\ last' = call
    /\ UNCHANGED <<graphVars, exported, edgeVars, containerVars, heapVars>>

AddChild ==
    \E parent \in TreeVertexArgs, child \in TreeVertexArgs :
        LET o == TreeAddChild(tree, parent, child)
        IN  TreeStep(Call("add_child", parent, child, 1, NONE, "", o, o), o)

RemoveSubtree ==
    \E node \in TreeVertexArgs :
        LET o == TreeRemoveSubtree(tree, node)
        IN  TreeStep(Call("remove_subtree", node, node, 1, NONE, "", o, o), o)

\* graph = tree.to_graph(): the caller keeps the reference returned
ToGraph ==
    /\ last.op = "none"
    /\ exported = NONE
    /\ exported' = Some(TreeToGraph(tree))
    /\ tpre' = tree
    /\ last' = Call("to_graph", None, None, 1, NONE, "",
                    TreeOutcome(tree, "ok", NONE), TreeOutcome(tree, "ok", NONE))
    /\ UNCHANGED <<graphVars, tree, edgeVars, containerVars, heapVars>>

\* Tree.from_graph(tree.to_graph(), tree.root); ret1 holds the Tree returned
FromGraphOfToGraph ==
    LET o == TreeFromGraph(GraphAt(TreeToGraph(tree), tree), tree.root)
    IN  TreeStep(Call("from_graph_of_to_graph", tree.root, tree.root, 1, NONE,
                      "", o, o),
                 TreeOutcome(tree, o.err, o.ret))

\* tree.height(); ret1 holds the value returned
Height ==
    LET o == TreeHeight(tree)
    IN  TreeStep(Call("height", None, None, 1, NONE, "", o, o), o)

\* tree.depth(vertex); ret1 holds the value returned
Depth ==
    \E vertex \in TreeVertexArgs :
        LET o == TreeDepth(tree, vertex)
        IN  TreeStep(Call("depth", vertex, vertex, 1, NONE, "", o, o), o)

TreeNext ==
    \/ AddChild
    \/ RemoveSubtree
    \/ ToGraph
    \/ FromGraphOfToGraph
    \/ Height
    \/ Depth
    \/ Return

TreeSpec == TreeInit /\ [][TreeNext]_vars

\* --------------------------------------------- the container specification
\* the items pushed: two tuples of priority 1, a tuple and a bare value of
\* priority 2
Items == {TupleItem(1, "a"), TupleItem(1, "b"), TupleItem(2, "a"), BareItem(2)}

\* a call made on both containers; held is what the PriorityQueue held
\* before it
ContainerCall(op, item, o1, o2, held) ==
    [op |-> op, item |-> item, err1 |-> o1.err, err2 |-> o2.err,
     ret1 |-> o1.ret, ret2 |-> o2.ret, held |-> held]

\* seq without the first occurrence of x
RECURSIVE RemoveFirst(_, _)
RemoveFirst(seq, x) ==
    IF seq = <<>> THEN <<>>
    ELSE IF Head(seq) = x THEN Tail(seq)
    ELSE <<Head(seq)>> \o RemoveFirst(Tail(seq), x)

ContainerInit ==
    /\ g1 = Graph(TRUE, TRUE, "adjacency_list")
    /\ g2 = Graph(TRUE, TRUE, "adjacency_matrix")
    /\ pre1 = g1
    /\ pre2 = g2
    /\ tree = Tree(None)
    /\ tpre = tree
    /\ last = NoCall
    /\ nops = 0
    /\ exported = NONE
    /\ EdgeStart
    /\ ContainerStart
    /\ HeapStart

\* fifo.push(item); pq.push(item)
Push ==
    /\ Len(log.pushed) < MaxPushes
    /\ \E item \in Items :
          LET o1 == FifoPush(fifo, item)
              o2 == PqPush(pq, item)
          IN  /\ fifo' = o1.container
              /\ pq' = o2.container
              /\ log' = [log EXCEPT !.pushed = Append(@, item),
                                    !.held = Append(@, item)]
              /\ last' = ContainerCall("push", item, o1, o2, log.held)
    /\ UNCHANGED <<graphVars, treeVars, edgeVars, heapVars>>

\* fifo.pop(); pq.pop()
Pop ==
    LET o1 == FifoPop(fifo)
        o2 == PqPop(pq)
    IN  /\ fifo' = o1.container
        /\ pq' = o2.container
        /\ log' = [log EXCEPT
                      !.popped = IF o1.err = "ok" THEN Append(@, o1.ret[1]) ELSE @,
                      !.held = IF o2.err = "ok" THEN RemoveFirst(@, o2.ret[1]) ELSE @]
        /\ last' = ContainerCall("pop", BareItem(0), o1, o2, log.held)
        /\ UNCHANGED <<graphVars, treeVars, edgeVars, heapVars>>

ContainerNext == Push \/ Pop

ContainerSpec == ContainerInit /\ [][ContainerNext]_vars

\* ---------------------------------------------- the metadata specification
\* Here the metadata field of an Edge holds the id of a dict object and
\* dicts[id] is what the object contains, so that two edges can hold one
\* object. An object that no edge of g1 or g2 refers to is not recorded.

\* a dict object created with the given content
NewDict(heap, content) ==
    [dicts |-> Append(heap, content), id |-> Len(heap) + 1]

\* "metadata or {}": the caller's object unless it is None or empty, in
\* which case a new empty dict is created; arg is NONE or Some(id)
MetadataOrEmpty(heap, arg) ==
    IF arg # NONE /\ heap[arg[1]] # {}
    THEN [dicts |-> heap, id |-> arg[1]]
    ELSE NewDict(heap, {})

\* the edge stored under (source, target) replaced by value
ReprStoreEdge(g, source, target, value) ==
    IF g.representation = "adjacency_list"
    THEN [g EXCEPT !.repr.adj =
             DictSet(@, source, DictSet(DictGet(@, source), target, value))]
    ELSE [g EXCEPT !.repr.matrix =
             SetCell(@, DictGet(g.repr.vertex_to_index, source),
                        DictGet(g.repr.vertex_to_index, target), Some(value))]

\* GraphAddEdgeShared whose representation gives the reverse edge of an
\* undirected graph a copy of the metadata: Edge(target, source, weight,
\* dict(metadata))
GraphAddEdgeCopiesForReverse(g, heap, source, target, weight, arg) ==
    IF ValidateEdgeVertices(g, source, target) # "ok"
    THEN [graph |-> g, dicts |-> heap,
          err |-> ValidateEdgeVertices(g, source, target), ret |-> NONE]
    ELSE LET m == MetadataOrEmpty(heap, arg)
             added == ReprAddEdge(g, source, target, weight, Some(m.id))
             g1a == [g EXCEPT !.repr = added.repr]
             copy == NewDict(m.dicts, m.dicts[m.id])
         IN  IF ~added.ret
             THEN [graph |-> g, dicts |-> heap, err |-> "ok", ret |-> NONE]
             ELSE IF g.directed \/ source = target
             THEN [graph |-> g1a, dicts |-> m.dicts, err |-> "ok", ret |-> NONE]
             ELSE [graph |-> ReprStoreEdge(g1a, target, source,
                                 Edge(target, source, weight, copy.id, TRUE)),
                   dicts |-> copy.dicts, err |-> "ok", ret |-> NONE]

\* Graph.add_edge with the metadata objects: the representation puts the
\* one object "metadata or {}" into the edge and, when undirected, into the
\* reverse edge
GraphAddEdgeShared(g, heap, source, target, weight, arg) ==
    IF ValidateEdgeVertices(g, source, target) # "ok"
    THEN [graph |-> g, dicts |-> heap,
          err |-> ValidateEdgeVertices(g, source, target), ret |-> NONE]
    ELSE LET m == MetadataOrEmpty(heap, arg)
             added == ReprAddEdge(g, source, target, weight, Some(m.id))
         IN  IF ~added.ret
             THEN [graph |-> g, dicts |-> heap, err |-> "ok", ret |-> NONE]
             ELSE [graph |-> [g EXCEPT !.repr = added.repr],
                   dicts |-> m.dicts, err |-> "ok", ret |-> NONE]

\* graph.get_edge(source, target).metadata[key] = value
SetMetadataThroughGetEdge(g, heap, source, target, key, value) ==
    LET e == GraphGetEdge(g, source, target)
    IN  IF e.err # "ok"
        THEN [graph |-> g, dicts |-> heap, err |-> e.err, ret |-> NONE]
        ELSE [graph |-> g,
              dicts |-> [heap EXCEPT ![e.ret[1].metadata] =
                            {p \in @ : p[1] # key} \cup {<<key, value>>}],
              err |-> "ok", ret |-> NONE]

\* md = <the dict, if any>; g1.add_edge(s, t, w, md); g2.add_edge(s, t, w, md):
\* both graphs are given the same object
AddEdgeShared ==
    /\ last.op = "none"
    /\ nops < MaxOps
    /\ \E s \in VertexArgs, t \in VertexArgs, p \in EdgeArgs :
          LET w == p[1]
              md == p[2]
              heap0 == IF md = NONE THEN dicts ELSE NewDict(dicts, md[1]).dicts
              arg == IF md = NONE THEN NONE ELSE Some(Len(dicts) + 1)
              o1 == GraphAddEdgeShared(g1, heap0, s, t, w, arg)
              o2 == GraphAddEdgeShared(g2, o1.dicts, s, t, w, arg)
          IN  /\ g1' = o1.graph
              /\ g2' = o2.graph
              /\ dicts' = IF o1.graph = g1 /\ o2.graph = g2 THEN dicts
                          ELSE o2.dicts
              /\ pre1' = g1
              /\ pre2' = g2
              /\ last' = Call("add_edge", s, t, w, md, "", o1, o2)
              /\ nops' = IF o1.err = "ok" THEN nops + 1 ELSE nops
    /\ UNCHANGED <<treeVars, edgeVars, containerVars>>

\* g.get_edge(s, t).metadata["type"] = "rail" on one of the two graphs;
\* name tells which
UpdateMetadata ==
    /\ last.op = "none"
    /\ nops < MaxOps
    /\ \E s \in Vertices, t \in Vertices, name \in {"g1", "g2"} :
          LET g == IF name = "g1" THEN g1 ELSE g2
              o == SetMetadataThroughGetEdge(g, dicts, s, t, "type", "rail")
          IN  /\ dicts' = o.dicts
              /\ last' = Call("set_metadata", s, t, 1, NONE, name, o, o)
              /\ nops' = IF o.err = "ok" THEN nops + 1 ELSE nops
    /\ pre1' = g1
    /\ pre2' = g2
    /\ UNCHANGED <<g1, g2, treeVars, edgeVars, containerVars>>

\* two undirected graphs, no dict object
MetaInit ==
    /\ g1 = Graph(FALSE, TRUE, "adjacency_list")
    /\ g2 = Graph(FALSE, TRUE, "adjacency_matrix")
    /\ pre1 = g1
    /\ pre2 = g2
    /\ tree = Tree(None)
    /\ tpre = tree
    /\ last = NoCall
    /\ nops = 0
    /\ exported = NONE
    /\ EdgeStart
    /\ ContainerStart
    /\ HeapStart

MetaNext ==
    \/ AddVertex
    \/ RemoveVertex
    \/ RemoveEdge
    \/ AddEdgeShared
    \/ UpdateMetadata
    \/ Return

MetaSpec == MetaInit /\ [][MetaNext]_vars

\* ============================================================== properties
\* helpers of the properties below

Mutations == {"add_vertex", "remove_vertex", "add_edge", "remove_edge"}
Called(op) == last.op = op
Succeeded(op) == last.op = op /\ last.err1 = "ok" /\ last.err2 = "ok"

\* the Edge objects of a list as a Python set holds them (by __eq__)
EdgeKeySet(edges) == {EdgeKey(e) : e \in SeqToSet(edges)}
EdgePairs(g) == {<<e.source, e.target>> : e \in SeqToSet(GraphEdges(g))}

\* the vertices reachable from the set S along the (source, target) pairs E
RECURSIVE Closure(_, _)
Closure(E, S) ==
    LET next == S \cup {e[2] : e \in {x \in E : x[1] \in S}}
    IN  IF next = S THEN S ELSE Closure(E, next)

\* a is a proper ancestor of d along the pairs E
IsAncestor(E, a, d) == d \in Closure(E, {e[2] : e \in {x \in E : x[1] = a}})

\* ----------------------------------------------------------------------- C1
\* C1: after every sequence of add_vertex, remove_vertex, add_edge and
\* remove_edge calls made with the same arguments on a list-backed and a
\* matrix-backed Graph of the same directed flag, the two have the same
\* vertices(), the same edges() as sets, the same neighbors(v) and degree(v)
\* for every vertex v (raising alike for an absent v), and every call raised
\* the same kind of error, or none, on both.
RepresentationEquivalence ==
    /\ last.err1 = last.err2
    /\ GraphVertices(g1) = GraphVertices(g2)
    /\ EdgeKeySet(GraphEdges(g1)) = EdgeKeySet(GraphEdges(g2))
    /\ \A v \in VertexArgs :
          /\ GraphNeighbors(g1, v).err = GraphNeighbors(g2, v).err
          /\ GraphNeighbors(g1, v).ret = GraphNeighbors(g2, v).ret
          /\ GraphDegree(g1, v).err = GraphDegree(g2, v).err
          /\ GraphDegree(g1, v).ret = GraphDegree(g2, v).ret

\* a vertex with an incoming edge was removed, the matrix moved another
\* vertex to a lower index, and that vertex still has a neighbor
RepresentationEquivalenceWitness ==
    /\ Succeeded("remove_vertex")
    /\ \E u \in GraphVertices(pre1) : ListHasEdge(pre1.repr, u, last.a)
    /\ \E u \in GraphVertices(g2) :
          /\ DictGet(g2.repr.vertex_to_index, u)
                < DictGet(pre2.repr.vertex_to_index, u)
          /\ GraphNeighbors(g2, u).ret # {}

\* ----------------------------------------------------------------------- C4
\* the edges() entries that join u and v, in either direction
EntriesBetween(g, u, v) ==
    {i \in 1..Len(GraphEdges(g)) :
        {GraphEdges(g)[i].source, GraphEdges(g)[i].target} = {u, v}}

UndirectedEdgeCountOf(g, pre) ==
    /\ (/\ Succeeded("add_edge")
        /\ last.a # last.b
        /\ ~GraphHasEdge(pre, last.a, last.b).ret)
       => /\ GraphNumEdges(g) = GraphNumEdges(pre) + 1
          /\ Cardinality(EntriesBetween(g, last.a, last.b)) = 1
    /\ Succeeded("remove_edge")
       => GraphNumEdges(g) = GraphNumEdges(pre) - 1

\* C4: in an undirected Graph of either representation, add_edge(u, v) of
\* a new edge between two distinct existing vertices raises num_edges() by
\* exactly 1 and edges() holds that edge once, and remove_edge(u, v) of an
\* existing edge lowers num_edges() by exactly 1.
UndirectedEdgeCountedOnce ==
    ~g1.directed =>
        UndirectedEdgeCountOf(g1, pre1) /\ UndirectedEdgeCountOf(g2, pre2)

\* ----------------------------------------------------------------------- C5
UndirectedGetEdgeOf(g) ==
    LET forward == GraphGetEdge(g, last.a, last.b)
        reverse == GraphGetEdge(g, last.b, last.a)
    IN  /\ forward.err = "ok"
        /\ reverse.err = "ok"
        /\ EdgeEq(forward.ret[1], reverse.ret[1])
        /\ EdgeHash(forward.ret[1]) = EdgeHash(reverse.ret[1])
        /\ forward.ret[1].source = reverse.ret[1].source
        /\ forward.ret[1].target = reverse.ret[1].target
        /\ Comparable(last.a, last.b) =>
              forward.ret[1].source < forward.ret[1].target
        /\ forward.ret[1].weight = reverse.ret[1].weight
        /\ forward.ret[1].metadata = reverse.ret[1].metadata

\* C5: in an undirected graph, after add_edge(u, v, weight, metadata) with
\* u # v, get_edge(u, v) and get_edge(v, u) return equal edges with equal
\* hashes, the same source and target (the lesser vertex as source), the
\* same weight and the same metadata.
UndirectedGetEdgeCanonical ==
    (~g1.directed /\ Succeeded("add_edge") /\ last.a # last.b)
        => UndirectedGetEdgeOf(g1) /\ UndirectedGetEdgeOf(g2)

\* ----------------------------------------------------------------------- C6
RemoveVertexCascadeOf(g, pre) ==
    LET v == last.a
    IN  /\ v \notin GraphVertices(g)
        /\ \A i \in 1..Len(GraphEdges(g)) :
              GraphEdges(g)[i].source # v /\ GraphEdges(g)[i].target # v
        /\ GraphNumVertices(g) = GraphNumVertices(pre) - 1
        /\ \A u \in GraphVertices(pre) \ {v}, w \in GraphVertices(pre) \ {v} :
              ReprGetEdgeData(pre, u, w) # NONE =>
                  /\ ReprGetEdgeData(g, u, w) = ReprGetEdgeData(pre, u, w)
                  /\ ReprGetEdgeData(pre, u, w)[1] \in SeqToSet(GraphEdges(g))

\* C6: after remove_vertex(v) in either representation and either directed
\* mode, v is not in vertices(), no edge of edges() has v as source or
\* target, the vertex count dropped by exactly 1, and every edge between
\* two other vertices is still there with its weight and metadata.
RemoveVertexCascade ==
    Succeeded("remove_vertex") =>
        RemoveVertexCascadeOf(g1, pre1) /\ RemoveVertexCascadeOf(g2, pre2)

\* the vertex at index 0 of a matrix was removed; it had an edge, and an
\* edge with metadata, which sat at higher indices, is still there
RemoveVertexCascadeWitness ==
    /\ Succeeded("remove_vertex")
    /\ DictGet(pre2.repr.vertex_to_index, last.a) = 0
    /\ \E u \in GraphVertices(pre2) :
          ReprHasEdge(pre2, last.a, u) \/ ReprHasEdge(pre2, u, last.a)
    /\ \E u \in GraphVertices(g2), w \in GraphVertices(g2) :
          /\ ReprGetEdgeData(g2, u, w) # NONE
          /\ ReprGetEdgeData(g2, u, w)[1].metadata = RoadMeta

\* ----------------------------------------------------------------------- C7
\* C7: every Graph mutation that raises (add_vertex, remove_vertex, add_edge
\* or remove_edge) leaves the graph, of either representation, exactly as it
\* was before the call: its vertices, its edges and every stored weight and
\* metadata.
FailedMutationChangesNothing ==
    last.op \in Mutations =>
        /\ last.err1 # "ok" =>
              /\ g1 = pre1
              /\ GraphVertices(g1) = GraphVertices(pre1)
              /\ GraphEdges(g1) = GraphEdges(pre1)
        /\ last.err2 # "ok" =>
              /\ g2 = pre2
              /\ GraphVertices(g2) = GraphVertices(pre2)
              /\ GraphEdges(g2) = GraphEdges(pre2)

\* remove_edge raised EdgeNotFoundError on a graph that holds the opposite
\* edge, with metadata
FailedMutationChangesNothingWitness ==
    /\ Called("remove_edge")
    /\ last.err1 = "EdgeNotFoundError"
    /\ last.err2 = "EdgeNotFoundError"
    /\ ReprGetEdgeData(g2, last.b, last.a) # NONE
    /\ ReprGetEdgeData(g2, last.b, last.a)[1].metadata = RoadMeta

\* ----------------------------------------------------------------------- C8
\* C8: g.convert_representation(X) returns normally, leaves
\* g.representation equal to X, and keeps directed, weighted, the vertex
\* set, the edge set and every edge's weight and metadata (so that X
\* followed by the original representation Y restores the original graph).
ConvertRepresentationPreserves ==
    Called("convert_representation") =>
        /\ last.err1 = "ok"
        /\ g1.representation = last.name
        /\ g1.directed = pre1.directed
        /\ g1.weighted = pre1.weighted
        /\ GraphVertices(g1) = GraphVertices(pre1)
        /\ SeqToSet(GraphEdges(g1)) = SeqToSet(GraphEdges(pre1))

\* ----------------------------------------------------------------------- C9
\* g is a rooted tree: directed, vertex count - 1 edges, and every vertex
\* reachable from root, which is one of them
IsRootedTree(g, root) ==
    /\ g.directed
    /\ root \in GraphVertices(g)
    /\ GraphNumEdges(g) = GraphNumVertices(g) - 1
    /\ Closure(EdgePairs(g), {root}) = GraphVertices(g)

FromGraphValidatesOf(g, err, ret) ==
    /\ (ret # NONE) <=> IsRootedTree(g, last.a)
    /\ ret # NONE => err = "ok"
    /\ ret = NONE => err \in {"ValueError", "InvalidGraphError"}

\* C9: Tree.from_graph(graph, root), for a hashable root, returns a Tree if
\* and only if graph is directed and a rooted tree from root; in every other
\* case it raises ValueError or InvalidGraphError and returns no Tree.
FromGraphValidates ==
    (Called("from_graph") /\ Hashable(last.a)) =>
        /\ FromGraphValidatesOf(g1, last.err1, last.ret1)
        /\ FromGraphValidatesOf(g2, last.err2, last.ret2)

\* ----------------------------------------------------------------------- C2
IsEmptyTree(t) == TreeNumVertices(t) = 0 /\ TreeNumEdges(t) = 0

\* C2: after any sequence of add_child and remove_subtree calls on a Tree
\* made by Tree(root), the calls that raise included, either num_edges() =
\* num_vertices() - 1 and every vertex is reachable from the root along
\* directed edges, or the tree has no vertex and no edge, which comes about
\* only by a remove_subtree(root) that succeeds.
TreeShapeInvariant ==
    \/ /\ TreeNumEdges(tree) = TreeNumVertices(tree) - 1
       /\ Closure(TreeEdges(tree), {tree.root}) = TreeVertices(tree)
    \/ /\ IsEmptyTree(tree)
       /\ \/ IsEmptyTree(tpre)
          \/ Called("remove_subtree") /\ last.a = tree.root /\ last.err1 = "ok"

\* remove_subtree took an inner node with a child out of a tree and left
\* the root with another child
TreeShapeInvariantWitness ==
    /\ Called("remove_subtree")
    /\ last.err1 = "ok"
    /\ last.a # tree.root
    /\ GraphNeighbors(tpre.graph, last.a).ret # {}
    /\ TreeNumVertices(tree) >= 2

\* ----------------------------------------------------------------------- C3
\* C3: after an add_child that ends any sequence of add_child and
\* remove_subtree calls on a Tree made by Tree(root), the keys of
\* the parent map are exactly vertices() minus the root, parent(v) == p
\* holds exactly when the graph has the edge p -> v, and parent(v) is None
\* if and only if v is the root.
ParentMapInvariant ==
    Succeeded("add_child") =>
    /\ DictKeys(tree.parent_map) = TreeVertices(tree) \ {tree.root}
    /\ \A v \in TreeVertices(tree), p \in TreeVertices(tree) :
          (TreeParent(tree, v).ret = p) <=> (<<p, v>> \in TreeEdges(tree))
    /\ \A v \in TreeVertices(tree) :
          (TreeParent(tree, v).ret = None) <=> (v = tree.root)

\* ---------------------------------------------------------------------- C10
\* C10: add_child(d, a), where a is in the tree as a proper ancestor of d
\* (the root, d's parent, or any vertex between them), raises CycleError and
\* leaves the vertex set, the edge set and every parent() answer as they
\* were.
AncestorAsChildRejected ==
    (/\ Called("add_child")
     /\ Hashable(last.a)
     /\ Hashable(last.b)
     /\ IsAncestor(TreeEdges(tpre), last.b, last.a))
    => /\ last.err1 = "CycleError"
       /\ TreeVertices(tree) = TreeVertices(tpre)
       /\ TreeEdges(tree) = TreeEdges(tpre)
       /\ TreeNumEdges(tree) = TreeNumEdges(tpre)
       /\ \A v \in TreeVertexArgs :
             /\ TreeParent(tree, v).err = TreeParent(tpre, v).err
             /\ TreeParent(tree, v).ret = TreeParent(tpre, v).ret

\* add_child(d, a) was called with an ancestor a of d that is neither the
\* root nor d's parent
AncestorAsChildRejectedWitness ==
    /\ Called("add_child")
    /\ Hashable(last.a)
    /\ Hashable(last.b)
    /\ IsAncestor(TreeEdges(tpre), last.b, last.a)
    /\ last.b # tpre.root
    /\ <<last.b, last.a>> \notin TreeEdges(tpre)

\* ---------------------------------------------------------------------- C11
\* the parent-map entries of a tree as (child, parent) pairs
ParentPairs(t) == {t.parent_map[i] : i \in 1..Len(t.parent_map)}

\* C11: add_child(parent, child) raises VertexNotFoundError when parent is
\* not in the tree, whatever child is; with parent in the tree and child in
\* the tree it raises ValueError when child is registered as a child of
\* parent and CycleError otherwise (child = parent and child = root
\* included); in these three cases the tree is unchanged.  With parent in
\* the tree and child not in it, the call returns normally and adds exactly
\* the vertex child, the edge parent -> child and the entry child -> parent.
AddChildOutcomes ==
    (Called("add_child") /\ Hashable(last.a)) =>
        IF last.a \notin TreeVertices(tpre)
        THEN last.err1 = "VertexNotFoundError" /\ tree = tpre
        ELSE IF ~Hashable(last.b) THEN last.err1 # "ok" /\ tree = tpre
        ELSE IF last.b \in TreeVertices(tpre)
        THEN /\ last.err1 = IF <<last.b, last.a>> \in ParentPairs(tpre)
                            THEN "ValueError" ELSE "CycleError"
             /\ tree = tpre
        ELSE /\ last.err1 = "ok"
             /\ TreeVertices(tree) = TreeVertices(tpre) \cup {last.b}
             /\ TreeEdges(tree) = TreeEdges(tpre) \cup {<<last.a, last.b>>}
             /\ TreeNumEdges(tree) = TreeNumEdges(tpre) + 1
             /\ ParentPairs(tree) = ParentPairs(tpre) \cup {<<last.b, last.a>>}
             /\ tree.root = tpre.root

\* a duplicate request on a tree of three vertices, refused with ValueError
AddChildOutcomesWitness ==
    /\ Called("add_child")
    /\ last.err1 = "ValueError"
    /\ Cardinality(TreeVertices(tpre)) >= 3
    /\ last.a # tpre.root

\* ---------------------------------------------------------------------- C12
UndirectedSymmetricOf(g) ==
    /\ \A u \in Vertices, v \in Vertices :
          /\ GraphHasEdge(g, u, v).err = "ok"
          /\ GraphHasEdge(g, u, v).ret = GraphHasEdge(g, v, u).ret
    /\ \A u \in GraphVertices(g), v \in GraphVertices(g) :
          (v \in GraphNeighbors(g, u).ret) <=> (u \in GraphNeighbors(g, v).ret)

\* C12: in an undirected graph on either representation, after any sequence
\* of add_vertex, remove_vertex, add_edge and remove_edge calls,
\* has_edge(u, v) = has_edge(v, u) for all u and v, and v is in neighbors(u)
\* exactly when u is in neighbors(v).
UndirectedSymmetric ==
    ~g1.directed => UndirectedSymmetricOf(g1) /\ UndirectedSymmetricOf(g2)

\* an undirected edge between two vertices was removed, its reverse
\* direction went with it, and another edge stays
UndirectedSymmetricWitness ==
    /\ ~g1.directed
    /\ Succeeded("remove_edge")
    /\ last.a # last.b
    /\ GraphHasEdge(pre2, last.b, last.a).ret
    /\ ~GraphHasEdge(g2, last.b, last.a).ret
    /\ ~GraphHasEdge(g1, last.a, last.b).ret
    /\ \E u \in GraphVertices(g1), v \in GraphVertices(g1) :
          GraphHasEdge(g1, u, v).ret /\ GraphHasEdge(g2, v, u).ret

\* ---------------------------------------------------------------------- C13
\* what a caller can observe of g is what it can observe of h
SameObservations(g, h) ==
    /\ GraphVertices(g) = GraphVertices(h)
    /\ GraphEdges(g) = GraphEdges(h)
    /\ GraphNumVertices(g) = GraphNumVertices(h)
    /\ GraphNumEdges(g) = GraphNumEdges(h)
    /\ \A v \in Vertices :
          /\ GraphNeighbors(g, v).err = GraphNeighbors(h, v).err
          /\ GraphNeighbors(g, v).ret = GraphNeighbors(h, v).ret

\* C13: add_vertex(v) for a vertex already in the graph raises no error and
\* leaves vertices(), edges(), num_vertices(), num_edges() and every
\* neighbors() answer unchanged on both representations; the matrix keeps
\* its size and its index maps.
AddExistingVertexIdempotent ==
    (Called("add_vertex") /\ Hashable(last.a)
        /\ last.a \in GraphVertices(pre1)) =>
        /\ last.err1 = "ok"
        /\ last.err2 = "ok"
        /\ SameObservations(g1, pre1)
        /\ SameObservations(g2, pre2)
        /\ g2.repr.matrix = pre2.repr.matrix
        /\ g2.repr.vertex_to_index = pre2.repr.vertex_to_index
        /\ g2.repr.index_to_vertex = pre2.repr.index_to_vertex

\* a vertex with an edge is added again, and it is not the last vertex of
\* the matrix
AddExistingVertexIdempotentWitness ==
    /\ Called("add_vertex")
    /\ last.a \in GraphVertices(pre2)
    /\ GraphNeighbors(pre2, last.a).ret # {}
    /\ DictGet(pre2.repr.vertex_to_index, last.a) + 1 < Len(pre2.repr.matrix)

\* ---------------------------------------------------------------------- C14
\* the edges of g as (source, target, weight, metadata) values
EdgeData(g) ==
    {<<e.source, e.target, e.weight, e.metadata>> : e \in SeqToSet(GraphEdges(g))}

AddExistingEdgeOf(g, pre) ==
    /\ GraphNumEdges(g) = GraphNumEdges(pre)
    /\ EdgeData(g) = EdgeData(pre)
    /\ GraphGetEdge(g, last.a, last.b) = GraphGetEdge(pre, last.a, last.b)
    /\ GraphGetEdge(g, last.b, last.a) = GraphGetEdge(pre, last.b, last.a)

\* C14: add_edge(u, v, w2, m2) when the edge u -> v exists (undirected: when
\* the edge between u and v exists, in either argument order) raises no
\* error and leaves the edge count, the edge set and the stored weight and
\* metadata of that edge unchanged, whatever w2 and m2 are.
AddExistingEdgeIdempotent ==
    (/\ Called("add_edge")
     /\ Hashable(last.a)
     /\ Hashable(last.b)
     /\ \/ <<last.a, last.b>> \in EdgePairs(pre1)
        \/ ~pre1.directed /\ <<last.b, last.a>> \in EdgePairs(pre1)) =>
        /\ last.err1 = "ok"
        /\ last.err2 = "ok"
        /\ AddExistingEdgeOf(g1, pre1)
        /\ AddExistingEdgeOf(g2, pre2)

\* an existing edge of weight 1 without metadata is added again with weight
\* 5 and metadata
AddExistingEdgeIdempotentWitness ==
    /\ Called("add_edge")
    /\ last.a # last.b
    /\ <<last.a, last.b>> \in EdgePairs(pre1)
    /\ GraphGetEdge(pre1, last.a, last.b).ret[1].weight = 1
    /\ last.weight = 5
    /\ last.metadata = Some(RoadMeta)

\* ---------------------------------------------------------------------- C15
\* the (source, target) keys that remove_edge(a, b) is to remove from g
RemovedPairs(g, a, b) ==
    IF g.directed THEN {<<a, b>>} ELSE {<<a, b>>, <<b, a>>}

RemoveEdgeContractOf(g, pre, err) ==
    IF last.a \notin GraphVertices(pre) \/ last.b \notin GraphVertices(pre)
    THEN err = "VertexNotFoundError"
    ELSE IF <<last.a, last.b>> \notin EdgePairs(pre)
    THEN err = "EdgeNotFoundError"
    ELSE /\ err = "ok"
         /\ GraphHasEdge(g, last.a, last.b).ret = FALSE
         /\ GraphVertices(g) = GraphVertices(pre)
         /\ EdgeData(g) =
               {d \in EdgeData(pre) :
                   <<d[1], d[2]>> \notin RemovedPairs(pre, last.a, last.b)}

\* C15: Graph.remove_edge(u, v) raises VertexNotFoundError when u or v is
\* absent (before it looks for the edge) and EdgeNotFoundError when both are
\* present and there is no edge u -> v; when it returns normally exactly
\* that edge is removed (both directions when undirected), has_edge(u, v)
\* is false, and all vertices and all other edges remain.
RemoveEdgeContract ==
    (Called("remove_edge") /\ Hashable(last.a) /\ Hashable(last.b)) =>
        /\ RemoveEdgeContractOf(g1, pre1, last.err1)
        /\ RemoveEdgeContractOf(g2, pre2, last.err2)

\* ---------------------------------------------------------------------- C16
FromGraphCheckOrderOf(g, err) ==
    /\ ~g.directed => err = "ValueError"
    /\ (g.directed /\ Hashable(last.a)
           /\ GraphNumEdges(g) # GraphNumVertices(g) - 1) =>
          err = "InvalidGraphError"

\* C16: Tree.from_graph checks directed first and the edge count second: an
\* undirected graph always yields ValueError, and a directed graph whose
\* edge count differs from its vertex count - 1 always yields
\* InvalidGraphError, also when it is cyclic or disconnected as well.
FromGraphCheckOrder ==
    Called("from_graph") =>
        /\ FromGraphCheckOrderOf(g1, last.err1)
        /\ FromGraphCheckOrderOf(g2, last.err2)

\* ---------------------------------------------------------------------- C17
\* t, returned by from_graph(g, root), has g's vertices and edges, no entry
\* for the root in its parent map, and for every other vertex v answers
\* parent(v) with the one u that has an edge u -> v
FromGraphParentMapOf(g, t) ==
    /\ TreeVertices(t) = GraphVertices(g)
    /\ TreeEdges(t) = EdgePairs(g)
    /\ ~DictHas(t.parent_map, t.root)
    /\ \A v \in GraphVertices(g) \ {t.root} :
          /\ TreeParent(t, v).err = "ok"
          /\ \E u \in GraphVertices(g) :
                /\ {x \in GraphVertices(g) : <<x, v>> \in EdgePairs(g)} = {u}
                /\ DictHas(t.parent_map, v)
                /\ TreeParent(t, v).ret = u

\* C17: after a Tree.from_graph(g, root) that returns a Tree, parent(v) of
\* every vertex v other than the root is the predecessor of v from the root
\* (the unique u with an edge u -> v in g), the root is not a key of the
\* parent map, and the tree has the vertices and the edges of g.
FromGraphParentMap ==
    (Called("from_graph") /\ last.ret1 # NONE /\ last.ret2 # NONE) =>
        /\ last.ret1[1].root = last.a
        /\ FromGraphParentMapOf(g1, last.ret1[1])
        /\ FromGraphParentMapOf(g2, last.ret2[1])

\* ---------------------------------------------------------------------- C18
\* C18: for every Tree t made by Tree(root), add_child and remove_subtree
\* that still holds its root, Tree.from_graph(t.to_graph(), t.root) returns
\* a Tree with the vertices() of t, the edges() of t as (source, target)
\* pairs, and the parent(v) of t for every vertex v.
RoundTripPreserves ==
    (Called("from_graph_of_to_graph") /\ tree.root \in TreeVertices(tree)) =>
        /\ last.err1 = "ok"
        /\ last.ret1 # NONE
        /\ last.ret1[1].root = tree.root
        /\ TreeVertices(last.ret1[1]) = TreeVertices(tree)
        /\ TreeEdges(last.ret1[1]) = TreeEdges(tree)
        /\ \A v \in TreeVertexValues :
              /\ TreeParent(last.ret1[1], v).err = TreeParent(tree, v).err
              /\ TreeParent(last.ret1[1], v).ret = TreeParent(tree, v).ret

\* the round trip of a tree of depth two whose parent map the conversion
\* rebuilt in another order
RoundTripPreservesWitness ==
    /\ Called("from_graph_of_to_graph")
    /\ last.ret1 # NONE
    /\ \E i \in 1..Len(tree.parent_map) : tree.parent_map[i][2] # tree.root
    /\ last.ret1[1].parent_map # tree.parent_map

RemoveSubtreeFrame ==
    (Called("remove_subtree") /\ Hashable(last.a)) =>
        IF last.a \notin TreeVertices(tpre)
        THEN last.err1 = "VertexNotFoundError" /\ tree = tpre
        ELSE LET gone == Closure(TreeEdges(tpre), {last.a})
             IN  /\ last.err1 = "ok"
                 /\ tree.root = tpre.root
                 /\ TreeVertices(tree) = TreeVertices(tpre) \ gone
                 /\ DictKeys(tree.parent_map) = DictKeys(tpre.parent_map) \ gone
                 /\ TreeEdges(tree) =
                       {e \in TreeEdges(tpre) : e[1] \notin gone /\ e[2] \notin gone}
                 /\ TreeNumEdges(tree) = Cardinality(TreeEdges(tree))
                 /\ \A v \in TreeVertices(tree) :
                       /\ TreeParent(tree, v).err = "ok"
                       /\ TreeParent(tree, v).ret = TreeParent(tpre, v).ret

\* a node with a child is removed from under the root, whose other child
\* stays with its edge and its parent
RemoveSubtreeFrameWitness ==
    /\ Called("remove_subtree")
    /\ last.err1 = "ok"
    /\ last.a # tpre.root
    /\ Cardinality(Closure(TreeEdges(tpre), {last.a})) = 2
    /\ TreeEdges(tree) # {}
    /\ Len(tree.parent_map) = 1

\* ---------------------------------------------------------------------- C21
\* height(), depth(v) for every v and remove_subtree(v) for every v come to
\* an end on the tree t
TerminatesOn(t) ==
    /\ TreeHeight(t).err # "diverges"
    /\ \A v \in Vertices \cup TreeVertexValues :
          /\ TreeDepth(t, v).err # "diverges"
          /\ TreeRemoveSubtree(t, v).err # "diverges"

\* C21: height(), depth(v) and remove_subtree(node) terminate on every Tree
\* the public API gives: Tree(root) followed by add_child and
\* remove_subtree calls, and every Tree that Tree.from_graph returns for a
\* directed graph and a root.
TreeOperationsTerminate ==
    /\ TerminatesOn(tree)
    /\ (Called("from_graph") /\ last.ret1 # NONE) => TerminatesOn(last.ret1[1])
    /\ (Called("from_graph") /\ last.ret2 # NONE) => TerminatesOn(last.ret2[1])

\* ---------------------------------------------------------------------- C22
\* C22: on every non-empty Tree made by Tree(root), add_child and
\* remove_subtree, height() returns the maximum of depth(v) over the
\* vertices v, and 0 when the tree has a single vertex.
HeightIsMaxDepth ==
    (Called("height") /\ TreeNumVertices(tree) > 0) =>
        /\ last.err1 = "ok"
        /\ \A v \in TreeVertices(tree) : TreeDepth(tree, v).err = "ok"
        /\ \A v \in TreeVertices(tree) : TreeDepth(tree, v).ret <= last.ret1
        /\ \E v \in TreeVertices(tree) : TreeDepth(tree, v).ret = last.ret1
        /\ TreeNumVertices(tree) = 1 => last.ret1 = 0

\* ---------------------------------------------------------------------- C23
\* C23: on every Tree made by Tree(root), add_child and remove_subtree,
\* depth(root) = 0 and depth(v) = depth(parent(v)) + 1 for every other
\* vertex v; depth never raises ValueError, and depth of a vertex that is
\* not in the tree raises VertexNotFoundError.
DepthFollowsParent ==
    (Called("depth") /\ Hashable(last.a)) =>
        IF last.a \notin TreeVertices(tree)
        THEN last.err1 = "VertexNotFoundError"
        ELSE /\ last.err1 = "ok"
             /\ last.a = tree.root => last.ret1 = 0
             /\ last.a # tree.root =>
                   /\ TreeParent(tree, last.a).err = "ok"
                   /\ TreeDepth(tree, TreeParent(tree, last.a).ret).err = "ok"
                   /\ last.ret1 =
                         TreeDepth(tree, TreeParent(tree, last.a).ret).ret + 1

\* ---------------------------------------------------------------------- C24
\* C24: for distinct hashable vertices a and b and a weight w,
\* Edge(a, b, w, directed=False) and Edge(b, a, w, directed=False) are
\* equal, have equal hashes and store the same source and target, for
\* comparable vertices and, through the hash order, for vertices that are
\* not comparable, whatever their hashes are.
UndirectedEdgeOrderIndependent ==
    (/\ Called("Edge")
     /\ last.err1 = "ok"
     /\ last.err2 = "ok"
     /\ last.a[1] # last.a[2]
     /\ last.b[1] = last.a[2]
     /\ last.b[2] = last.a[1]
     /\ last.b[3] = last.a[3]
     /\ ~last.a[5]
     /\ ~last.b[5]) =>
        /\ EdgeEq(edge1[1], edge2[1])
        /\ EdgeHash(edge1[1]) = EdgeHash(edge2[1])
        /\ edge1[1].source = edge2[1].source
        /\ edge1[1].target = edge2[1].target

\* ---------------------------------------------------------------------- C25
\* C25: for a # b and any weights, Edge(a, b, directed=True) and
\* Edge(b, a, directed=True) are not equal; a directed edge keeps source
\* and target as given; a directed edge is never equal to an undirected
\* edge on the same endpoints.
DirectedEdgeAsymmetric ==
    (Called("Edge") /\ last.err1 = "ok" /\ last.err2 = "ok") =>
        /\ last.a[5] =>
              edge1[1].source = last.a[1] /\ edge1[1].target = last.a[2]
        /\ last.b[5] =>
              edge2[1].source = last.b[1] /\ edge2[1].target = last.b[2]
        /\ (last.a[5] /\ last.b[5] /\ last.a[1] # last.a[2]
               /\ last.b[1] = last.a[2] /\ last.b[2] = last.a[1]) =>
              ~EdgeEq(edge1[1], edge2[1])
        /\ (last.a[5] # last.b[5]
               /\ {last.a[1], last.a[2]} = {last.b[1], last.b[2]}) =>
              ~EdgeEq(edge1[1], edge2[1])

\* Edge(2, 1, w, directed=True) stays (2, 1); Edge(2, 1, w, directed=False)
\* became (1, 2); the two are not equal
DirectedEdgeAsymmetricWitness ==
    /\ Called("Edge")
    /\ last.err1 = "ok"
    /\ last.err2 = "ok"
    /\ last.a[5]
    /\ ~last.b[5]
    /\ last.a[1] = 2
    /\ last.a[2] = 1
    /\ last.b[1] = 2
    /\ last.b[2] = 1
    /\ edge1[1].source = 2
    /\ edge2[1].source = 1
    /\ ~EdgeEq(edge1[1], edge2[1])

\* ---------------------------------------------------------------------- C26
\* e1 and e2 store the same source, target, weight and directed flag
SameIdentity(e1, e2) ==
    /\ e1.source = e2.source
    /\ e1.target = e2.target
    /\ e1.weight = e2.weight
    /\ e1.directed = e2.directed

\* C26: two Edges are equal, with equal hashes, exactly when they agree on
\* (source, target, weight, directed) as stored after normalization;
\* metadata has no part in it: a change of the contents of an edge's
\* metadata after construction changes neither whether it equals the other
\* edge nor its hash.
EdgeEqualityIgnoresMetadata ==
    (edge1 # NONE /\ edge2 # NONE) =>
        /\ (EdgeEq(edge1[1], edge2[1]) /\ EdgeHash(edge1[1]) = EdgeHash(edge2[1]))
              <=> SameIdentity(edge1[1], edge2[1])
        /\ Called("set_metadata") =>
              /\ EdgeEq(edge1[1], edge2[1]) <=> EdgeEq(epre[1][1], epre[2][1])
              /\ EdgeEq(edge1[1], epre[1][1])
              /\ EdgeEq(edge2[1], epre[2][1])
              /\ EdgeHash(edge1[1]) = EdgeHash(epre[1][1])
              /\ EdgeHash(edge2[1]) = EdgeHash(epre[2][1])

\* the metadata of one of two equal edges was changed; they hold different
\* metadata and are equal
EdgeEqualityIgnoresMetadataWitness ==
    /\ Called("set_metadata")
    /\ edge1 # NONE
    /\ edge2 # NONE
    /\ edge1[1].metadata # epre[1][1].metadata
    /\ edge1[1].metadata # edge2[1].metadata
    /\ EdgeEq(edge1[1], edge2[1])

\* ---------------------------------------------------------------------- C27
\* the number of edges of edges() that satisfy Test
CountEdges(g, Test(_)) ==
    Cardinality({i \in 1..Len(GraphEdges(g)) : Test(GraphEdges(g)[i])})

\* in_degree and out_degree of a vertex of the directed graph g count the
\* edges arriving at it and leaving it
DegreesCount(g, v) ==
    LET Arrives(e) == e.target = v
        Leaves(e) == e.source = v
    IN  /\ GraphInDegree(g, v).err = "ok"
        /\ GraphOutDegree(g, v).err = "ok"
        /\ GraphInDegree(g, v).ret = CountEdges(g, Arrives)
        /\ GraphOutDegree(g, v).ret = CountEdges(g, Leaves)

\* in_degree plus out_degree is the number of edges incident to v
DegreesSumToIncident(g, v) ==
    LET Incident(e) == e.source = v \/ e.target = v
    IN  GraphInDegree(g, v).ret + GraphOutDegree(g, v).ret
            = CountEdges(g, Incident)

\* on an undirected graph both raise ValueError, whatever the argument
UndirectedDegreesRaise(g) ==
    \A v \in VertexArgs :
        /\ GraphInDegree(g, v).err = "ValueError"
        /\ GraphOutDegree(g, v).err = "ValueError"

InOutDegreeOf(g) ==
    IF g.directed
    THEN \A v \in GraphVertices(g) :
            DegreesCount(g, v) /\ DegreesSumToIncident(g, v)
    ELSE UndirectedDegreesRaise(g)

\* C27 as stated: for any directed graph and any vertex v, in_degree(v) is
\* the number of edges with target v, out_degree(v) is the number of edges
\* with source v, and in_degree(v) + out_degree(v) equals the number of
\* edges incident to v; on an undirected graph both raise ValueError.
InOutDegreeSumIsIncident == InOutDegreeOf(g1) /\ InOutDegreeOf(g2)

InOutDegreeNoLoopOf(g) ==
    IF g.directed
    THEN \A v \in GraphVertices(g) :
            /\ DegreesCount(g, v)
            /\ ~GraphHasEdge(g, v, v).ret => DegreesSumToIncident(g, v)
    ELSE UndirectedDegreesRaise(g)

\* C27 amended: for any directed graph and any vertex v of it, in_degree(v)
\* is the number of edges with target v and out_degree(v) the number of
\* edges with source v, and when the graph has no edge from v to v their
\* sum is the number of edges incident to v; on an undirected graph both
\* raise ValueError.
InOutDegreeCountEdges == InOutDegreeNoLoopOf(g1) /\ InOutDegreeNoLoopOf(g2)

\* a vertex of a directed graph with an edge arriving, another leaving and
\* no self-loop; another vertex of the graph carries a self-loop
InOutDegreeCountEdgesWitness ==
    /\ g1.directed
    /\ \E v \in GraphVertices(g1), w \in GraphVertices(g1) :
          /\ v # w
          /\ ~GraphHasEdge(g1, v, v).ret
          /\ GraphHasEdge(g1, w, w).ret
          /\ GraphInDegree(g1, v).ret = 1
          /\ GraphOutDegree(g1, v).ret = 1
          /\ GraphInDegree(g2, v).ret = 1
          /\ GraphOutDegree(g2, v).ret = 1

\* ---------------------------------------------------------------------- C28
\* the last call was an add_edge that returned normally on g and created
\* the edge from u to v, which pre did not have
CreatedByLast(g, pre, err, u, v) ==
    /\ last.op = "add_edge"
    /\ err = "ok"
    /\ \/ <<last.a, last.b>> = <<u, v>>
       \/ ~g.directed /\ <<last.a, last.b>> = <<v, u>>
    /\ ~GraphHasEdge(pre, u, v).ret

\* the metadata an edge carries when add_edge was given md
GivenMetadata(md) == IF md = NONE THEN {} ELSE md[1]

\* get_edge on g, which the last call made of pre
GetEdgeOf(g, pre, err) ==
    /\ \A u \in VertexArgs, v \in VertexArgs :
          (GraphHasEdge(g, u, v).err = "ok" /\ ~GraphHasEdge(g, u, v).ret) =>
              /\ GraphGetEdge(g, u, v).err = "EdgeNotFoundError"
              /\ GraphGetEdge(g, u, v).graph = g
    /\ \A u \in Vertices, v \in Vertices :
          GraphHasEdge(g, u, v).ret =>
              /\ GraphGetEdge(g, u, v).err = "ok"
              /\ GraphGetEdge(g, u, v).graph = g
              /\ GraphGetEdge(g, u, v).ret # NONE
              /\ IF CreatedByLast(g, pre, err, u, v)
                 THEN /\ GraphGetEdge(g, u, v).ret[1].weight = last.weight
                      /\ GraphGetEdge(g, u, v).ret[1].metadata
                            = GivenMetadata(last.metadata)
                 ELSE /\ GraphHasEdge(pre, u, v).ret
                      /\ GraphGetEdge(g, u, v).ret[1].weight
                            = GraphGetEdge(pre, u, v).ret[1].weight
                      /\ GraphGetEdge(g, u, v).ret[1].metadata
                            = GraphGetEdge(pre, u, v).ret[1].metadata

\* C28: get_edge(u, v) raises EdgeNotFoundError whenever has_edge(u, v) is
\* false (also when u or v is not a vertex) and changes nothing; otherwise
\* it returns an Edge carrying the weight and metadata given to the add_edge
\* call that created that edge, also after other vertices and edges were
\* added or removed in between: every call leaves an edge either created by
\* it with the weight and metadata it was given, or carrying what it
\* carried before the call.
GetEdgeContract ==
    /\ GetEdgeOf(g1, pre1, last.err1)
    /\ GetEdgeOf(g2, pre2, last.err2)

\* the vertex stored first was removed; the edge between the two vertices
\* that stay carries weight 5 and {"type": "road"} on both graphs as before
\* the call, and the reverse edge is missing
GetEdgeContractWitness ==
    /\ Succeeded("remove_vertex")
    /\ g1.directed
    /\ DictGet(pre2.repr.vertex_to_index, last.a) = 0
    /\ \E u \in Vertices, v \in Vertices :
          /\ u # v
          /\ GraphHasEdge(g1, u, v).ret
          /\ GraphHasEdge(g2, u, v).ret
          /\ GraphGetEdge(g1, u, v).ret[1].weight = 5
          /\ GraphGetEdge(g2, u, v).ret[1].weight = 5
          /\ GraphGetEdge(g2, u, v).ret[1].metadata = RoadMeta
          /\ GraphGetEdge(g2, v, u).err = "EdgeNotFoundError"
          /\ GraphGetEdge(g1, last.a, v).err = "EdgeNotFoundError"

\* ---------------------------------------------------------------------- C29
\* seq begins with prefix
IsPrefix(prefix, seq) ==
    /\ Len(prefix) <= Len(seq)
    /\ SubSeq(seq, 1, Len(prefix)) = prefix

\* C29: for any interleaving of push and pop on a FIFOQueue, pop() returns
\* the items in exactly the order they were pushed, and is_empty() is true
\* exactly when every pushed item has been popped.
FifoOrder ==
    /\ IsPrefix(log.popped, log.pushed)
    /\ FifoIsEmpty(fifo) <=> Len(log.popped) = Len(log.pushed)
    /\ (last.op = "pop" /\ last.err1 = "ok") =>
          last.ret1[1] = log.pushed[Len(log.popped)]

\* pushes and pops were interleaved: the second pop returned the second of
\* three items pushed, which differs from the first and the third, and the
\* queue is not empty
FifoOrderWitness ==
    /\ last.op = "pop"
    /\ last.err1 = "ok"
    /\ Len(log.popped) = 2
    /\ Len(log.pushed) = 3
    /\ log.pushed[1] # log.pushed[2]
    /\ log.pushed[2] # log.pushed[3]
    /\ last.ret1[1] = log.pushed[2]
    /\ ~FifoIsEmpty(fifo)

\* ---------------------------------------------------------------------- C30
\* x is, among the items of held (in the order they were pushed), the
\* earliest of those with the least key
EarliestOfLeastKey(x, held) ==
    \E i \in 1..Len(held) :
        /\ held[i] = x
        /\ \A j \in 1..Len(held) : DefaultKey(x) <= DefaultKey(held[j])
        /\ \A j \in 1..(i - 1) : DefaultKey(held[j]) # DefaultKey(x)

\* C30: for any interleaving of push and pop on a PriorityQueue, pop()
\* returns an item whose key is minimal among the items currently held, and
\* among items of equal key the one that was pushed earliest.
PriorityOrder ==
    (last.op = "pop" /\ last.err2 = "ok") =>
        EarliestOfLeastKey(last.ret2[1], last.held)

\* pop returned the earlier of two held items of equal, least key, which
\* was pushed after an item of a greater key; an earlier pop came before
\* some push
PriorityOrderWitness ==
    /\ last.op = "pop"
    /\ last.err2 = "ok"
    /\ Len(last.held) = 3
    /\ Len(log.pushed) = 4
    /\ DefaultKey(last.held[1]) = 2
    /\ DefaultKey(last.held[2]) = 1
    /\ DefaultKey(last.held[3]) = 1
    /\ last.held[2] # last.held[3]
    /\ last.ret2[1] = last.held[2]

\* ---------------------------------------------------------------------- C31
\* the number of entries of edges() that lead from v to v
LoopCount(g, v) ==
    Cardinality({i \in 1..Len(GraphEdges(g)) :
                    GraphEdges(g)[i].source = v /\ GraphEdges(g)[i].target = v})

\* the loop at v is stored in g: once, and seen by every query
LoopPresent(g, v) ==
    /\ GraphHasEdge(g, v, v).ret
    /\ v \in GraphNeighbors(g, v).ret
    /\ LoopCount(g, v) = 1

LoopAbsent(g, v) ==
    /\ ~GraphHasEdge(g, v, v).ret
    /\ v \notin GraphNeighbors(g, v).ret
    /\ LoopCount(g, v) = 0
    /\ GraphGetEdge(g, v, v).err = "EdgeNotFoundError"

SelfLoopOf(g, pre, err) ==
    /\ \A v \in GraphVertices(g) : LoopPresent(g, v) \/ LoopAbsent(g, v)
    /\ (last.op = "add_edge" /\ err = "ok" /\ last.a = last.b) =>
          /\ LoopPresent(g, last.a)
          /\ LoopAbsent(pre, last.a) =>
                GraphNumEdges(g) = GraphNumEdges(pre) + 1
    /\ (last.op = "remove_edge" /\ err = "ok" /\ last.a = last.b) =>
          /\ LoopPresent(pre, last.a)
          /\ LoopAbsent(g, last.a)
          /\ GraphNumEdges(g) = GraphNumEdges(pre) - 1

\* C31: in both representations and both directed modes, add_edge(v, v) on
\* an existing vertex v creates exactly one stored entry that is never
\* mirrored: has_edge(v, v) is true, v is in neighbors(v), edges() contains
\* exactly one edge for the loop, and remove_edge(v, v) removes it
\* completely; list and matrix agree on all of these.
SelfLoopStoredOnce ==
    /\ SelfLoopOf(g1, pre1, last.err1)
    /\ SelfLoopOf(g2, pre2, last.err2)
    /\ last.err1 = last.err2
    /\ \A v \in Vertices :
          /\ GraphHasEdge(g1, v, v).ret = GraphHasEdge(g2, v, v).ret
          /\ LoopCount(g1, v) = LoopCount(g2, v)

\* remove_edge(v, v) returned on an undirected graph that held the loop at
\* v and another edge at v; the loop is gone from both representations and
\* the other edge stays
SelfLoopStoredOnceWitness ==
    /\ Succeeded("remove_edge")
    /\ last.a = last.b
    /\ ~g1.directed
    /\ LoopPresent(pre1, last.a)
    /\ LoopPresent(pre2, last.a)
    /\ LoopAbsent(g1, last.a)
    /\ LoopAbsent(g2, last.a)
    /\ \E w \in Vertices :
          /\ w # last.a
          /\ GraphHasEdge(g1, last.a, w).ret
          /\ GraphHasEdge(g2, w, last.a).ret

\* ---------------------------------------------------------------------- C32
\* C32: after AdjacencyMatrix.remove_vertex(x), following any prior
\* sequence of vertex and edge additions and removals, for all remaining
\* vertices u and w the answers of has_edge(u, w), get_edge_data(u, w) and
\* get_neighbors(u) minus x are the same as before the removal: shifting
\* the higher indices down by one never attaches an edge to the wrong
\* vertex pair.
MatrixRemoveVertexKeepsOthers ==
    (last.op = "remove_vertex" /\ last.err2 = "ok") =>
        /\ MatrixGetVertices(g2.repr) = MatrixGetVertices(pre2.repr) \ {last.a}
        /\ \A u \in MatrixGetVertices(g2.repr) :
              /\ MatrixGetNeighbors(g2.repr, u)
                    = MatrixGetNeighbors(pre2.repr, u) \ {last.a}
              /\ \A w \in MatrixGetVertices(g2.repr) :
                    /\ MatrixHasEdge(g2.repr, u, w) = MatrixHasEdge(pre2.repr, u, w)
                    /\ MatrixGetEdgeData(g2.repr, u, w)
                          = MatrixGetEdgeData(pre2.repr, u, w)

\* the vertex removed had index 0 and was a neighbour of a vertex that
\* stays; that vertex moved down by one index and keeps an edge to a vertex
\* that stays (possibly itself)
MatrixRemoveVertexKeepsOthersWitness ==
    /\ last.op = "remove_vertex"
    /\ last.err2 = "ok"
    /\ g2.directed
    /\ DictGet(pre2.repr.vertex_to_index, last.a) = 0
    /\ \E u \in MatrixGetVertices(g2.repr), w \in MatrixGetVertices(g2.repr) :
          /\ last.a \in MatrixGetNeighbors(pre2.repr, u)
          /\ MatrixGetNeighbors(g2.repr, u) = {w}
          /\ MatrixGetEdgeData(g2.repr, u, w) # NONE
          /\ DictGet(g2.repr.vertex_to_index, u)
                = DictGet(pre2.repr.vertex_to_index, u) - 1

\* ---------------------------------------------------------------------- C33
\* the keys of the dict d are distinct (a Python dict holds a key once)
DictKeysDistinct(d) ==
    \A i \in 1..Len(d), j \in 1..Len(d) : d[i][1] = d[j][1] => i = j

MatrixWellFormedOf(r) ==
    LET n == Cardinality(MatrixGetVertices(r))
    IN  /\ DictKeysDistinct(r.vertex_to_index)
        /\ DictKeysDistinct(r.index_to_vertex)
        /\ Len(r.vertex_to_index) = n
        /\ {DictGet(r.vertex_to_index, v) : v \in MatrixGetVertices(r)}
              = 0..(n - 1)
        /\ DictKeys(r.index_to_vertex) = 0..(n - 1)
        /\ \A v \in MatrixGetVertices(r) :
              DictGet(r.index_to_vertex, DictGet(r.vertex_to_index, v)) = v
        /\ Len(r.matrix) = n
        /\ \A i \in 1..Len(r.matrix) : Len(r.matrix[i]) = n

\* C33: after any sequence of AdjacencyMatrix operations with n vertices
\* present, _vertex_to_index is a bijection from the vertex set onto
\* 0..n-1, _index_to_vertex is its exact inverse with key set 0..n-1, and
\* the matrix has n rows of n cells each.
MatrixWellFormed ==
    /\ MatrixWellFormedOf(g2.repr)
    /\ MatrixWellFormedOf(pre2.repr)

\* the vertex of index 0 was removed from a matrix of three vertices; the
\* two that stay moved to indices 0 and 1
MatrixWellFormedWitness ==
    /\ last.op = "remove_vertex"
    /\ last.err2 = "ok"
    /\ Len(pre2.repr.matrix) = 3
    /\ DictGet(pre2.repr.vertex_to_index, last.a) = 0
    /\ Len(g2.repr.matrix) = 2
    /\ DictKeys(g2.repr.index_to_vertex) = {0, 1}

\* ---------------------------------------------------------------------- C34
GraphClosedOf(g) ==
    /\ \A e \in SeqToSet(GraphEdges(g)) :
          e.source \in GraphVertices(g) /\ e.target \in GraphVertices(g)
    /\ \A v \in GraphVertices(g) :
          /\ GraphNeighbors(g, v).err = "ok"
          /\ GraphNeighbors(g, v).ret \subseteq GraphVertices(g)
    /\ \A u \in Vertices, v \in Vertices :
          GraphHasEdge(g, u, v).ret =>
              /\ GraphGetEdge(g, u, v).ret # NONE
              /\ {GraphGetEdge(g, u, v).ret[1].source,
                  GraphGetEdge(g, u, v).ret[1].target} = {u, v}

\* C34: after any sequence of Graph operations in either representation,
\* every edge in edges() has both endpoints in vertices(), neighbors(v) is
\* a subset of vertices() for every vertex v, and the edge stored under
\* (u, v) has endpoint set {u, v}.
GraphClosed == GraphClosedOf(g1) /\ GraphClosedOf(g2)

\* a vertex with an edge arriving from u was removed; u stays and keeps
\* only its loop
GraphClosedWitness ==
    /\ Succeeded("remove_vertex")
    /\ \E u \in GraphVertices(g1) :
          /\ GraphHasEdge(pre1, u, last.a).ret
          /\ GraphHasEdge(pre2, u, last.a).ret
          /\ GraphNumEdges(g1) < GraphNumEdges(pre1)
          /\ GraphNumEdges(g2) < GraphNumEdges(pre2)
          /\ GraphNeighbors(g1, u).ret = {u}
          /\ GraphNeighbors(g2, u).ret = {u}

\* ---------------------------------------------------------------------- C35
TreeIsEmpty(t) == TreeNumVertices(t) = 0

\* every call that takes a vertex raises VertexNotFoundError on t, for
\* every hashable argument
EveryCallRaises(t) ==
    /\ \A parent \in TreeVertexValues, child \in TreeVertexValues :
          TreeAddChild(t, parent, child).err = "VertexNotFoundError"
    /\ \A v \in TreeVertexValues :
          /\ TreeRemoveSubtree(t, v).err = "VertexNotFoundError"
          /\ TreeParent(t, v).err = "VertexNotFoundError"
          /\ TreeChildren(t, v).err = "VertexNotFoundError"
          /\ TreeIsLeaf(t, v).err = "VertexNotFoundError"
          /\ TreeIsRoot(t, v).err = "VertexNotFoundError"
          /\ TreeDepth(t, v).err = "VertexNotFoundError"

\* C35: once remove_subtree(root) has succeeded the tree is empty for good:
\* the root property still returns the old root, but every later add_child,
\* remove_subtree, parent, children, is_leaf, is_root and depth call raises
\* VertexNotFoundError, so no sequence of Tree operations makes the tree
\* non-empty again.
EmptyTreeStaysEmpty ==
    /\ TreeRoot(tree) = TreeRoot(tpre)
    /\ (last.op = "remove_subtree" /\ last.err1 = "ok" /\ last.a = TreeRoot(tpre))
          => TreeIsEmpty(tree)
    /\ TreeIsEmpty(tpre) => TreeIsEmpty(tree)
    /\ TreeIsEmpty(tree) => EveryCallRaises(tree)
    /\ (TreeIsEmpty(tpre) /\ last.op \in {"add_child", "remove_subtree", "depth"}
          /\ Hashable(last.a) /\ Hashable(last.b))
          => last.err1 = "VertexNotFoundError"

\* add_child(root, child) was called on the tree emptied by
\* remove_subtree(root) and raised VertexNotFoundError; the tree is empty
\* as before
EmptyTreeStaysEmptyWitness ==
    /\ last.op = "add_child"
    /\ last.a = TreeRoot(tree)
    /\ last.b # last.a
    /\ Hashable(last.b)
    /\ last.err1 = "VertexNotFoundError"
    /\ TreeIsEmpty(tpre)
    /\ TreeIsEmpty(tree)
    /\ tree.parent_map = EmptyDict

\* ---------------------------------------------------------------------- C36
\* the root of the Tree t is among its vertices and is seen as its root
RootIsVertex(t) ==
    /\ TreeRoot(t) \in TreeVertices(t)
    /\ TreeIsRoot(t, TreeRoot(t)).err = "ok"
    /\ TreeIsRoot(t, TreeRoot(t)).ret = TRUE
    /\ TreeParent(t, TreeRoot(t)).err = "ok"
    /\ TreeParent(t, TreeRoot(t)).ret = None

\* C36: every Tree returned by Tree.from_graph(graph, root) has its root
\* among its vertices: root is in tree.vertices(), is_root(root) is true
\* and parent(root) is None without raising.
FromGraphRootIsVertex ==
    /\ (last.op = "from_graph" /\ last.err1 = "ok") => RootIsVertex(last.ret1[1])
    /\ (last.op = "from_graph" /\ last.err2 = "ok") => RootIsVertex(last.ret2[1])

\* ---------------------------------------------------------------------- C37
\* what get_edge(u, v).metadata of g contains
MetadataContent(g, u, v) == dicts[GraphGetEdge(g, u, v).ret[1].metadata]

\* the two stored directions of every edge of the undirected graph g hold
\* one metadata object and the same weight
DirectionsShareOf(g) ==
    \A u \in Vertices, v \in Vertices :
        GraphHasEdge(g, u, v).ret =>
            /\ GraphHasEdge(g, v, u).ret
            /\ GraphGetEdge(g, u, v).ret[1].metadata
                  = GraphGetEdge(g, v, u).ret[1].metadata
            /\ MetadataContent(g, u, v) = MetadataContent(g, v, u)
            /\ GraphGetEdge(g, u, v).ret[1].weight
                  = GraphGetEdge(g, v, u).ret[1].weight

\* C37: in an undirected graph the two stored directions of one edge share
\* a single metadata map: after an in-place update made through
\* get_edge(u, v).metadata, get_edge(v, u).metadata shows the same
\* contents, so the two directions never disagree on metadata or weight in
\* any reachable state.
DirectionsShareMetadata ==
    /\ ~g1.directed => DirectionsShareOf(g1)
    /\ ~g2.directed => DirectionsShareOf(g2)
    /\ (last.op = "set_metadata" /\ last.err1 = "ok") =>
          LET g == IF last.name = "g1" THEN g1 ELSE g2
          IN  /\ <<"type", "rail">> \in MetadataContent(g, last.a, last.b)
              /\ <<"type", "rail">> \in MetadataContent(g, last.b, last.a)

\* the metadata of an edge between two distinct vertices, created with
\* {"type": "road"}, was updated in place through one direction on the
\* matrix graph; the other direction shows {"type": "rail"}
DirectionsShareMetadataWitness ==
    /\ last.op = "set_metadata"
    /\ last.err1 = "ok"
    /\ last.name = "g2"
    /\ last.a # last.b
    /\ ~g2.directed
    /\ GraphGetEdge(g2, last.a, last.b).ret[1].weight = 5
    /\ MetadataContent(g2, last.b, last.a) = {<<"type", "rail">>}

====
